---- MODULE Spec2Model ----
(***************************************************************************)
(* SynchroTraceGen (Sigil2 backend): the dispatcher (EventHandlers), the   *)
(* per-thread aggregator (ThreadContext), the compute and communication    *)
(* event aggregators (STCompEvent, STCommEvent) and the coalescing address *)
(* range set (AddrSet), as a state machine driven by the primitive stream. *)
(***************************************************************************)
EXTENDS Integers, Sequences, FiniteSets, TLC

(***************************************************************************)
(* Bounds of the model.                                                    *)
(***************************************************************************)
\* Length of the primitive stream explored by Spec.
MaxPrims == 5
\* Compression levels (primsPerStCompEv) of Spec are drawn from 1..MaxCap.
MaxCap == 2
\* Compression levels of SpecStores are drawn from 1..MaxStoreCap.
MaxStoreCap == 3
\* Length of the primitive stream explored by SpecSync.
MaxSyncPrims == 5
\* Length of the primitive stream explored by SpecZero.
MaxZeroPrims == 5
\* Length of the primitive stream explored by SpecInstr: a Swap, an IOP and
\* enough Instr primitives for two markers.
MaxInstrPrims == 8194
\* Length of the primitive stream explored by SpecIops: a Swap and 100 IOPs.
MaxIopPrims == 101
\* Number of addEdge calls on one communication event explored by SpecEdge.
MaxEdgeCalls == 4
\* Length of the primitive stream explored by SpecProd.
MaxProdPrims == 8
\* Length of the primitive stream explored by SpecFirst.
MaxFirstPrims == 4
\* Number of primitives dispatched, over all EventHandlers instances, in
\* SpecMtx.
MaxMtxPrims == 4
\* Number of events handed to the CapnLogger of SpecCapn.
MaxCapnEvents == 4
\* The CapnLogger's eventsPerMessage is drawn from 1..MaxBatch.
MaxBatch == 3
\* Number of Store primitives explored by SpecStores.
MaxStores == 6
\* AddrSet ranges explored by SpecAddr have their ends in 0..MaxRangeAddr or
\* at the last address of the address space.
MaxRangeAddr == 3
\* Number of insert calls per set explored by SpecAddr.
MaxInserts == 3
\* Width of Addr in the model: addresses are 0..2^AddrBits-1 and address
\* arithmetic wraps, as for the unsigned Addr of the program.
AddrBits == 4
\* Number of slots of EventManager::ev_buf.
MaxEvBuf == 2
\* Number of observers (event and cleanup observers together) registered
\* with the EventManager.
MaxObservers == 4
\* Number of EventManager calls explored by SpecEm.
MaxEmCalls == 6

AddrSpace == 2 ^ AddrBits
AllAddrs == 0 .. (AddrSpace - 1)
\* Thread ids (TID >= 1) and access sizes of the explored streams.
Tids == {1, 2}
LoadSizes == {1, 2}
StoreSizes == {1, 3}
Caps == 1 .. MaxCap
\* SO_UNDEF: the shadow memory's "no writer recorded" thread id.
SO_UNDEF == 0
\* cachedTCxt == nullptr
NullTCxt == 0

VARIABLES
    tcxts,              \* EventHandlers::tcxts: TID -> ThreadContext
    currentTID,         \* EventHandlers::currentTID
    cachedTCxt,         \* EventHandlers::cachedTCxt (the TID it points to, or NullTCxt)
    shadow,             \* ThreadContext::shadow (shared by all threads)
    newThreadsInOrder,  \* global thread-order list
    threadSpawns,       \* global list of (spawner TID, address of the child's thread_t)
    barrierParticipants,\* global list of (barrier address, set of participating TIDs)
    allThreadsStats,    \* global map TID -> final Stats
    primsPerStCompEv,   \* global compression level (option -c)
    ndebug,             \* the build: TRUE when assert is compiled out (NDEBUG)
    phase,              \* "run" while primitives arrive, "flush" / "destroy" inside a
                        \* handler that released gMtx, "done" after destruction
    nprims,             \* number of primitives dispatched so far
    lastPrim,           \* the primitive dispatched by the last step
    msA, msB,           \* two AddrSet objects (SpecAddr)
    ptsA, ptsB,         \* the addresses inserted into each so far
    nA, nB,             \* number of insert calls on each
    capn,               \* a CapnLogger: orphans, events, the roots written, closed
    capnN,              \* CapnLogger::eventsPerMessage
    capnIn,             \* the events handed to the CapnLogger so far
    stCommE,            \* a STCommEvent on its own (SpecEdge)
    edgeIn,             \* the addEdge calls made on it so far
    gMtx,               \* the global mutex: 0 when free, else the holder (SpecMtx)
    wpc,                \* per thread of SpecMtx: position in its handler
    wop,                \* per thread: the primitive being (or last) handled
    wst,                \* per EventHandlers instance: currentTID, cachedTCxt, tcxts
    wn,                 \* number of primitives dispatched in SpecMtx
    wloc,               \* per instance: the locals writer, isReader of its onRead
    ev_buf,             \* EventManager::ev_buf, slots 0 .. MaxEvBuf-1 (SpecEm)
    used,               \* EventManager::used
    observers,          \* EventManager::{mem,comp,sync,cxt}_observers
    cleanup_observers,  \* EventManager::cleanup_observers
    notified,           \* the calls received by the observers, in order
    emCall              \* the last EventManager call and the number of calls

vars == <<tcxts, currentTID, cachedTCxt, shadow, newThreadsInOrder,
          threadSpawns, barrierParticipants, allThreadsStats, primsPerStCompEv, ndebug, phase, nprims, lastPrim, msA, msB, ptsA, ptsB, nA, nB,
          capn, capnN, capnIn, stCommE, edgeIn, gMtx, wpc, wop, wst, wn, wloc,
          ev_buf, used, observers, cleanup_observers, notified, emCall>>
genVars == <<tcxts, currentTID, cachedTCxt, shadow, newThreadsInOrder,
             threadSpawns, barrierParticipants, allThreadsStats, primsPerStCompEv, ndebug, phase, nprims, lastPrim>>
\* genVars but for phase.
GenRest == UNCHANGED <<tcxts, currentTID, cachedTCxt, shadow, newThreadsInOrder,
                       threadSpawns, barrierParticipants, allThreadsStats,
                       primsPerStCompEv, ndebug, nprims, lastPrim>>
addrVars == <<msA, msB, ptsA, ptsB, nA, nB>>
capnVars == <<capn, capnN, capnIn>>
edgeVars == <<stCommE, edgeIn>>
mtxVars == <<gMtx, wpc, wop, wst, wn, wloc>>
emVars == <<ev_buf, used, observers, cleanup_observers, notified, emCall>>

(***************************************************************************)
(* Address arithmetic (unsigned, modulo 2^AddrBits).                       *)
(***************************************************************************)
AddrAdd(a, n) == (a + n) % AddrSpace
AddrSub(a, n) == (a + AddrSpace - (n % AddrSpace)) % AddrSpace

(***************************************************************************)
(* AddrSet: a std::multiset of (first, second) pairs ordered by pair       *)
(* comparison, modelled as the sorted sequence of its elements.            *)
(***************************************************************************)
PairLess(p, q) == p[1] < q[1] \/ (p[1] = q[1] /\ p[2] < q[2])

\* ms.lower_bound(range): index of the first element not less than range,
\* Len(ms) + 1 for ms.cend().
LowerBound(ms, range) ==
    LET hits == {i \in 1..Len(ms) : ~PairLess(ms[i], range)}
    IN  IF hits = {} THEN Len(ms) + 1
        ELSE CHOOSE i \in hits : \A j \in hits : i <= j

\* ms.erase(it)
MsErase(ms, it) == SubSeq(ms, 1, it - 1) \o SubSeq(ms, it + 1, Len(ms))

\* ms.insert(range) / ms.emplace(first, second): keeps the order; an equal
\* element is kept beside the new one (multiset).
MsInsert(ms, range) ==
    LET k == Cardinality({i \in 1..Len(ms) : ~PairLess(range, ms[i])})
    IN  SubSeq(ms, 1, k) \o <<range>> \o SubSeq(ms, k + 1, Len(ms))

\* AddrSet::insert(range).  ms is the multiset the call leaves when assert is
\* compiled out; asserted tells that assert(range.first <= range.second)
\* fails at the head of this call or of one of the calls it makes on itself:
\* a build with assertions aborts there.
\* assert(range.first <= range.second) fails.
AssertFailed(range) == range[1] > range[2]
\* The outcome of a call that made the recursive call with outcome x.
AfterRecursion(range, x) ==
    [ms |-> x.ms, asserted |-> AssertFailed(range) \/ x.asserted]
\* The outcome of a call that leaves m without a recursive call.
Leaves(range, m) == [ms |-> m, asserted |-> AssertFailed(range)]

RECURSIVE AddrSetInsertRun(_, _)
AddrSetInsertRun(ms, range) ==
    IF ms = <<>> THEN Leaves(range, <<range>>)
    ELSE
    LET lb == LowerBound(ms, range)
        it == IF lb # 1
              THEN IF lb = Len(ms) + 1
                   THEN Len(ms)
                   ELSE IF range[1] > AddrAdd(ms[lb - 1][2], 1) THEN lb ELSE lb - 1
              ELSE lb
        e  == ms[it]
    IN  IF range[1] = AddrAdd(e[2], 1)
        THEN AfterRecursion(range, AddrSetInsertRun(MsErase(ms, it), <<e[1], range[2]>>))
        ELSE IF AddrAdd(range[2], 1) = e[1]
        THEN AfterRecursion(range, AddrSetInsertRun(MsErase(ms, it), <<range[1], e[2]>>))
        ELSE IF range[1] > e[2]
        THEN Leaves(range, MsInsert(ms, range))
        ELSE IF range[1] >= e[1]
        THEN IF range[2] > e[2]
             THEN AfterRecursion(range, AddrSetInsertRun(MsErase(ms, it), <<e[1], range[2]>>))
             ELSE Leaves(range, ms)
        ELSE IF range[2] < e[1]
        THEN Leaves(range, MsInsert(ms, range))
        ELSE IF range[2] <= e[2]
        THEN Leaves(range, MsInsert(MsErase(ms, it), <<range[1], e[2]>>))
        ELSE AfterRecursion(range, AddrSetInsertRun(MsErase(ms, it), range))

\* The set a call of insert leaves (assert compiled out, or not failing).
AddrSetInsert(ms, range) == AddrSetInsertRun(ms, range).ms
\* The call of insert fails its assert.
AddrSetInsertAsserts(ms, range) == AddrSetInsertRun(ms, range).asserted

\* AddrSet(range): the set constructed from one range.
AddrSetOf(range) == AddrSetInsert(<<>>, range)

\* The addresses covered by a range and by the stored ranges of a set.
RangePoints(r) == {a \in AllAddrs : r[1] <= a /\ a <= r[2]}
Points(ms) == UNION {RangePoints(ms[i]) : i \in 1..Len(ms)}

(***************************************************************************)
(* STShadowMemory: per byte, the last writer (thread and event id) and the *)
(* threads that read the byte since.                                       *)
(***************************************************************************)
\* The table is sparse: a byte never touched has no cell and reads as one
\* with no writer and no reader.
ShadowCell0 == [writer |-> SO_UNDEF, eid |-> 0, readers |-> {}]
ShadowInit == [a \in {} |-> ShadowCell0]
ShadowCell(sh, addr) == IF addr \in DOMAIN sh THEN sh[addr] ELSE ShadowCell0

getWriterTID(sh, addr) == ShadowCell(sh, addr).writer
getWriterEID(sh, addr) == ShadowCell(sh, addr).eid
isReaderTID(sh, addr, tid) == tid \in ShadowCell(sh, addr).readers

ByteRange(start, size) == {AddrAdd(start, i) : i \in 0..(size - 1)}

updateReader(sh, addr, size, tid) ==
    [a \in (DOMAIN sh) \cup ByteRange(addr, size) |->
        IF a \in ByteRange(addr, size)
        THEN [ShadowCell(sh, a) EXCEPT !.readers = @ \cup {tid}]
        ELSE sh[a]]

updateWriter(sh, start, size, tid, eid) ==
    [a \in (DOMAIN sh) \cup ByteRange(start, size) |->
        IF a \in ByteRange(start, size)
        THEN [writer |-> tid, eid |-> eid, readers |-> {}]
        ELSE sh[a]]

(***************************************************************************)
(* STCompEvent: the compute-event aggregator.                              *)
(***************************************************************************)
STCompReset ==
    [iops |-> 0, flops |-> 0, reads |-> 0, writes |-> 0,
     uniqueWriteAddrs |-> <<>>, uniqueReadAddrs |-> <<>>, isActive |-> FALSE]

incWrites(c) == [c EXCEPT !.isActive = TRUE, !.writes = @ + 1]
incReads(c) == [c EXCEPT !.isActive = TRUE, !.reads = @ + 1]
incIOP(c) == [c EXCEPT !.isActive = TRUE, !.iops = @ + 1]
incFLOP(c) == [c EXCEPT !.isActive = TRUE, !.flops = @ + 1]

updateWrites(c, begin, size) ==
    [c EXCEPT !.uniqueWriteAddrs =
        AddrSetInsert(@, <<begin, AddrSub(AddrAdd(begin, size), 1)>>)]
updateReads(c, begin, size) ==
    [c EXCEPT !.uniqueReadAddrs =
        AddrSetInsert(@, <<begin, AddrSub(AddrAdd(begin, size), 1)>>)]
\* The insert of updateWrites / updateReads fails its assert.
updateWritesAsserts(c, begin, size) ==
    AddrSetInsertAsserts(c.uniqueWriteAddrs, <<begin, AddrSub(AddrAdd(begin, size), 1)>>)
updateReadsAsserts(c, begin, size) ==
    AddrSetInsertAsserts(c.uniqueReadAddrs, <<begin, AddrSub(AddrAdd(begin, size), 1)>>)

(***************************************************************************)
(* STCommEvent: the communication-event aggregator.  comms is the ordered  *)
(* list of edges (writer thread, writer event, AddrSet).                   *)
(***************************************************************************)
STCommReset == [comms |-> <<>>, isActive |-> FALSE]

\* addEdge without the search for an existing edge of the same producer event:
\* every byte becomes an edge of its own.
addEdge_NoCoalesce(m, writer, writer_event, addr) ==
    [m EXCEPT !.isActive = TRUE,
              !.comms = Append(@, <<writer, writer_event, AddrSetOf(<<addr, addr>>)>>)]

\* addEdge matching an existing edge by the writer thread alone.
addEdge_ByWriter(m, writer, writer_event, addr) ==
    LET hits == {i \in 1..Len(m.comms) : m.comms[i][1] = writer}
    IN  IF hits = {}
        THEN [m EXCEPT !.isActive = TRUE,
                       !.comms = Append(@, <<writer, writer_event, AddrSetOf(<<addr, addr>>)>>)]
        ELSE LET i == CHOOSE k \in hits : \A j \in hits : k <= j
             IN  [m EXCEPT !.isActive = TRUE,
                           !.comms[i][3] = AddrSetInsert(@, <<addr, addr>>)]

addEdge(m, writer, writer_event, addr) ==
    LET hits == {i \in 1..Len(m.comms) :
                    m.comms[i][1] = writer /\ m.comms[i][2] = writer_event}
    IN  IF hits = {}
        THEN [m EXCEPT !.isActive = TRUE,
                       !.comms = Append(@, <<writer, writer_event, AddrSetOf(<<addr, addr>>)>>)]
        ELSE LET i == CHOOSE k \in hits : \A j \in hits : k <= j
             IN  [m EXCEPT !.isActive = TRUE,
                           !.comms[i][3] = AddrSetInsert(@, <<addr, addr>>)]

\* The insert of addEdge, made on the edge of the same producer event when
\* there is one, fails its assert.
addEdgeAsserts(m, writer, writer_event, addr) ==
    LET hits == {i \in 1..Len(m.comms) :
                    m.comms[i][1] = writer /\ m.comms[i][2] = writer_event}
    IN  IF hits = {}
        THEN FALSE
        ELSE LET i == CHOOSE k \in hits : \A j \in hits : k <= j
             IN  AddrSetInsertAsserts(m.comms[i][3], <<addr, addr>>)

(***************************************************************************)
(* The records handed to the thread's logger, in the order handed.         *)
(***************************************************************************)
CompRecord(c, eid, tid) ==
    [kind |-> "comp", eid |-> eid, tid |-> tid,
     iops |-> c.iops, flops |-> c.flops, reads |-> c.reads, writes |-> c.writes,
     writeAddrs |-> c.uniqueWriteAddrs, readAddrs |-> c.uniqueReadAddrs]
CommRecord(m, eid, tid) ==
    [kind |-> "comm", eid |-> eid, tid |-> tid, edges |-> m.comms]
SyncRecord(syncType, syncAddr, eid, tid) ==
    [kind |-> "sync", eid |-> eid, tid |-> tid, type |-> syncType, addr |-> syncAddr]
MarkerRecord(limit) == [kind |-> "marker", count |-> limit]

(***************************************************************************)
(* ThreadContext                                                           *)
(***************************************************************************)
\* Stats{0,0,0,0,0}: IOP, FLOP, READ, WRITE, INSTR
Stats0 == [iop |-> 0, flop |-> 0, read |-> 0, write |-> 0, instr |-> 0]

\* ThreadContext(tid, primsPerStCompEv, ...): events{0}, both aggregators reset,
\* an empty log.
NewThreadContext(tid, prims) ==
    [tid |-> tid, primsPerStCompEv |-> prims,
     stComp |-> STCompReset, stComm |-> STCommReset,
     events |-> 0, stats |-> Stats0, logger |-> <<>>]

\* INCR_EID_OVERFLOW(events): the overflow at UINT_MAX is out of the reach of
\* the bounded primitive stream.
IncrEid(events) == events + 1

\* compFlushIfActive without stComp.reset().
compFlushIfActive_NoReset(tc) ==
    IF tc.stComp.isActive
    THEN [tc EXCEPT !.logger = Append(@, CompRecord(tc.stComp, tc.events, tc.tid)),
                    !.events = IncrEid(@)]
    ELSE tc

compFlushIfActive(tc) ==
    IF tc.stComp.isActive
    THEN [tc EXCEPT !.logger = Append(@, CompRecord(tc.stComp, tc.events, tc.tid)),
                    !.stComp = STCompReset,
                    !.events = IncrEid(@)]
    ELSE tc

\* commFlushIfActive without the increment of the event id.
commFlushIfActive_NoBump(tc) ==
    IF tc.stComm.isActive
    THEN [tc EXCEPT !.logger = Append(@, CommRecord(tc.stComm, tc.events, tc.tid)),
                    !.stComm = STCommReset]
    ELSE tc

commFlushIfActive(tc) ==
    IF tc.stComm.isActive
    THEN [tc EXCEPT !.logger = Append(@, CommRecord(tc.stComm, tc.events, tc.tid)),
                    !.stComm = STCommReset,
                    !.events = IncrEid(@)]
    ELSE tc

\* The flush condition with > in place of >=.
CompLimitReached_Strict(c, prims) == (c.writes > prims) \/ (c.reads > prims)

\* The flush condition of checkCompFlushLimit.
CompLimitReached(c, prims) == (c.writes >= prims) \/ (c.reads >= prims)

checkCompFlushLimit(tc) ==
    IF CompLimitReached(tc.stComp, tc.primsPerStCompEv)
    THEN compFlushIfActive(tc)
    ELSE tc

\* onIop with a compute flush once iops reaches the compression level.
onIop_FlushAtCap(tc) ==
    LET t1 == commFlushIfActive(tc)
        t2 == [t1 EXCEPT !.stComp = incIOP(@), !.stats.iop = @ + 1]
    IN  IF t2.stComp.iops >= t2.primsPerStCompEv THEN compFlushIfActive(t2) ELSE t2

onIop(tc) ==
    LET t1 == commFlushIfActive(tc)
    IN  [t1 EXCEPT !.stComp = incIOP(@), !.stats.iop = @ + 1]

onFlop(tc) ==
    LET t1 == commFlushIfActive(tc)
    IN  [t1 EXCEPT !.stComp = incFLOP(@), !.stats.flop = @ + 1]

\* The edge test without the comparison of the writer with the reading thread.
IsCommEdge_AnyWriter(isReader, writer, tid) ==
    (isReader = FALSE) /\ (writer # SO_UNDEF)

\* The comm-edge test of onRead for one byte.
IsCommEdge(isReader, writer, tid) ==
    (isReader = FALSE) /\ (writer # tid) /\ (writer # SO_UNDEF)

\* onRead without the updateReader call.
NoteReader_Skip(sh, addr, tid, isReader) == sh

\* if (isReader == false) shadow.updateReader(addr, 1, tid)
NoteReader(sh, addr, tid, isReader) ==
    IF isReader = FALSE THEN updateReader(sh, addr, 1, tid) ELSE sh

\* The byte loop of onRead from byte i on; st = [tc, shadow, isCommEdge].
RECURSIVE onReadBytes(_, _, _, _)
onReadBytes(st, start, bytes, i) ==
    IF i >= bytes THEN st
    ELSE
    LET addr     == AddrAdd(start, i)
        tid      == st.tc.tid
        writer   == getWriterTID(st.shadow, addr)
        isReader == isReaderTID(st.shadow, addr, tid)
        sh1      == NoteReader(st.shadow, addr, tid, isReader)
        st1      == IF IsCommEdge(isReader, writer, tid)
                    THEN [tc |-> [st.tc EXCEPT !.stComm =
                                     addEdge(@, writer, getWriterEID(sh1, addr), addr)],
                          shadow |-> sh1, isCommEdge |-> TRUE]
                    ELSE [tc |-> [st.tc EXCEPT !.stComp = updateReads(@, addr, 1)],
                          shadow |-> sh1, isCommEdge |-> st.isCommEdge]
    IN  onReadBytes(st1, start, bytes, i + 1)

\* Byte i of the loop of onRead reaches an insert that fails its assert; st is
\* the state of the loop before that byte.
onReadByteAsserts(st, start, i) ==
    LET addr     == AddrAdd(start, i)
        tid      == st.tc.tid
        writer   == getWriterTID(st.shadow, addr)
        isReader == isReaderTID(st.shadow, addr, tid)
        sh1      == NoteReader(st.shadow, addr, tid, isReader)
    IN  IF IsCommEdge(isReader, writer, tid)
        THEN addEdgeAsserts(st.tc.stComm, writer, getWriterEID(sh1, addr), addr)
        ELSE updateReadsAsserts(st.tc.stComp, addr, 1)

\* Some byte of onRead fails the assert of AddrSet::insert.
onReadAsserts(tc, sh, start, bytes) ==
    \E i \in 0 .. bytes - 1 :
        onReadByteAsserts(onReadBytes([tc |-> tc, shadow |-> sh, isCommEdge |-> FALSE],
                                      start, i, 0),
                          start, i)

\* onWrite fails the assert of AddrSet::insert (in updateWrites).
onWriteAsserts(tc, start, bytes) == updateWritesAsserts(incWrites(tc.stComp), start, bytes)

\* onRead after the byte loop: the flush by the kind of the event, the
\* compression limit and the statistics.
onReadEnd(tc, isCommEdge) ==
    LET t1 == IF isCommEdge = FALSE
              THEN LET f == commFlushIfActive(tc)
                   IN  [f EXCEPT !.stComp = incReads(@)]
              ELSE compFlushIfActive(tc)
        t2 == checkCompFlushLimit(t1)
    IN  [t2 EXCEPT !.stats.read = @ + 1]

\* onRead: the new thread context and the new shadow memory.
onRead(tc, sh, start, bytes) ==
    LET st == onReadBytes([tc |-> tc, shadow |-> sh, isCommEdge |-> FALSE],
                          start, bytes, 0)
    IN  [tc |-> onReadEnd(st.tc, st.isCommEdge), shadow |-> st.shadow]

\* onWrite: the new thread context and the new shadow memory.
onWrite(tc, sh, start, bytes) ==
    LET t1  == [tc EXCEPT !.stComp = updateWrites(incWrites(@), start, bytes)]
        sh1 == updateWriter(sh, start, bytes, t1.tid, t1.events)
        t2  == checkCompFlushLimit(t1)
    IN  [tc |-> [t2 EXCEPT !.stats.write = @ + 1], shadow |-> sh1]

onSync(tc, syncType, syncAddr) ==
    LET t1 == commFlushIfActive(compFlushIfActive(tc))
    IN  [t1 EXCEPT !.logger = Append(@, SyncRecord(syncType, syncAddr, t1.events, t1.tid))]

\* add marker every 2**N instructions
InstrLimit == 2 ^ 12

\* onInstr with a marker that consumes an event id.
onInstr_BumpEid(tc) ==
    LET t1 == [tc EXCEPT !.stats.instr = @ + 1]
    IN  IF t1.stats.instr % InstrLimit = 0
        THEN [t1 EXCEPT !.logger = Append(@, MarkerRecord(InstrLimit)),
                        !.events = IncrEid(@)]
        ELSE t1

onInstr(tc) ==
    LET t1 == [tc EXCEPT !.stats.instr = @ + 1]
    IN  IF t1.stats.instr % InstrLimit = 0
        THEN [t1 EXCEPT !.logger = Append(@, MarkerRecord(InstrLimit))]
        ELSE t1

\* ~ThreadContext with an empty body.
destroyThreadContext_NoFlush(tc) == tc

\* ~ThreadContext
destroyThreadContext(tc) == commFlushIfActive(compFlushIfActive(tc))

(***************************************************************************)
(* CapnLogger: the packed-binary encoder.  An Event is built from the      *)
(* arguments of flush (the EID and TID are not encoded), kept as an orphan *)
(* and written with the other pending orphans as one EventStream root.     *)
(***************************************************************************)
\* flush(const STCompEvent&, EID, TID): the Event built.  The read ranges are
\* taken from ev.uniqueWriteAddrs.
CapnCompEvent(rec) ==
    [kind |-> "comp", iops |-> rec.iops, flops |-> rec.flops,
     reads |-> rec.reads, writes |-> rec.writes,
     writeAddrs |-> rec.writeAddrs, readAddrs |-> rec.writeAddrs]
\* flush(const STCommEvent&, EID, TID): the Event built.
CapnCommEvent(rec) == [kind |-> "comm", edges |-> rec.edges]
\* flush(syncType, syncAddr, EID, TID): the Event built, for syncType in 1..10.
CapnSyncEvent(rec) == [kind |-> "sync", type |-> rec.type, id |-> rec.addr]
\* instrMarker(limit): the Event built.
CapnMarkerEvent(rec) == [kind |-> "marker", count |-> rec.count]

CapnEvent(rec) ==
    CASE rec.kind = "comp"   -> CapnCompEvent(rec)
      [] rec.kind = "comm"   -> CapnCommEvent(rec)
      [] rec.kind = "sync"   -> CapnSyncEvent(rec)
      [] rec.kind = "marker" -> CapnMarkerEvent(rec)

\* CapnLogger(tid, outputPath)
CapnNew == [orphans |-> <<>>, events |-> 0, out |-> <<>>, closed |-> FALSE]

\* flushOrphans: a root of the first `events` orphans is written.
flushOrphans(lg) ==
    [lg EXCEPT !.out = Append(@, SubSeq(lg.orphans, 1, lg.events)),
               !.orphans = <<>>]

\* orphans.emplace_back(orphan); if (++events == eventsPerMessage) {...}
CapnEmplace(lg, ev, n) ==
    LET l1 == [lg EXCEPT !.orphans = Append(@, ev), !.events = @ + 1]
    IN  IF l1.events = n
        THEN [flushOrphans(l1) EXCEPT !.events = 0]
        ELSE l1

\* A destructor that closes the file without writing the pending events.
CapnDestroy_NoFlush(lg) == [lg EXCEPT !.closed = TRUE]
\* CapnLogger::~CapnLogger
CapnDestroy(lg) ==
    LET l1 == IF lg.events > 0 THEN flushOrphans(lg) ELSE lg
    IN  [l1 EXCEPT !.closed = TRUE]

(***************************************************************************)
(* EventHandlers: the dispatcher.                                          *)
(***************************************************************************)
\* The frontend's sync codes (SyncTypeEnum) that reach convertAndFlush.
KnownSyncTypes ==
    {"LOCK", "UNLOCK", "CREATE", "JOIN", "BARRIER", "CONDWAIT", "CONDSIG",
     "CONDBROAD", "SPINLOCK", "SPINUNLOCK"}

\* The switch of convertAndFlush: SynchroTrace's value of a sync code, 0 for
\* a code the switch does not list.
ConvertSyncType(type) ==
    CASE type = "LOCK"       -> 1
      [] type = "UNLOCK"     -> 2
      [] type = "CREATE"     -> 3
      [] type = "JOIN"       -> 4
      [] type = "BARRIER"    -> 5
      [] type = "CONDWAIT"   -> 6
      [] type = "CONDSIG"    -> 7
      [] type = "CONDBROAD"  -> 8
      [] type = "SPINLOCK"   -> 9
      [] type = "SPINUNLOCK" -> 10
      [] OTHER               -> 0

\* convertAndFlush: the thread contexts after it.
convertAndFlush(tcs, cached, type, data) ==
    LET stSyncType == ConvertSyncType(type)
    IN  IF stSyncType > 0
        THEN [tcs EXCEPT ![cached] = onSync(@, stSyncType, data)]
        ELSE tcs

\* onCreate: the spawn list after it.
onCreate(spawns, cur, data) == Append(spawns, <<cur, data>>)

\* onBarrier: the barrier list after it.
onBarrier(barriers, cur, data) ==
    LET hits == {i \in 1..Len(barriers) : barriers[i][1] = data}
    IN  IF hits = {}
        THEN Append(barriers, <<data, {cur}>>)
        ELSE LET idx == CHOOSE k \in hits : \A j \in hits : k <= j
             IN  [barriers EXCEPT ![idx][2] = @ \cup {cur}]

\* The search of newThreadsInOrder never finding the thread.
InList_Never(list, x) == FALSE

\* std::find(list.cbegin(), list.cend(), x) != list.cend()
InList(list, x) == \E i \in 1..Len(list) : list[i] = x

\* onSwapTCxt without the flushes of the outgoing context.
SwapContexts_NoFlush(tcs, order, cached, newTID, prims) ==
    IF InList(order, newTID) \/ newTID \in DOMAIN tcs
    THEN tcs
    ELSE [t \in (DOMAIN tcs) \cup {newTID} |->
            IF t = newTID THEN NewThreadContext(newTID, prims) ELSE tcs[t]]

\* The contexts after onSwapTCxt(newTID) when currentTID # newTID.
SwapContexts(tcs, order, cached, newTID, prims) ==
    LET t1 == IF InList(order, newTID) \/ newTID \in DOMAIN tcs
              THEN tcs
              ELSE [t \in (DOMAIN tcs) \cup {newTID} |->
                      IF t = newTID THEN NewThreadContext(newTID, prims) ELSE tcs[t]]
    IN  IF cached # NullTCxt
        THEN [t1 EXCEPT ![cached] = commFlushIfActive(compFlushIfActive(@))]
        ELSE t1

Prim(op, a, n) == [op |-> op, tid |-> currentTID, a |-> a, n |-> n]

Running(limit) == phase = "run" /\ nprims < limit
Forwarding(limit) == Running(limit) /\ cachedTCxt # NullTCxt

\* onSyncEv with SGLPRIM_SYNC_SWAP: onSwapTCxt(newTID)
SwapStep(newTID, limit) ==
    /\ Running(limit)
    /\ IF currentTID # newTID
       THEN /\ newThreadsInOrder' =
                  IF InList(newThreadsInOrder, newTID) THEN newThreadsInOrder
                  ELSE Append(newThreadsInOrder, newTID)
            /\ tcxts' = SwapContexts(tcxts, newThreadsInOrder, cachedTCxt,
                                     newTID, primsPerStCompEv)
            /\ currentTID' = newTID
            /\ cachedTCxt' = newTID
       ELSE UNCHANGED <<newThreadsInOrder, tcxts, currentTID, cachedTCxt>>
    /\ nprims' = nprims + 1
    /\ lastPrim' = Prim("Swap", newTID, 0)
    /\ UNCHANGED <<shadow, threadSpawns, barrierParticipants, allThreadsStats,
                   primsPerStCompEv, ndebug, phase>>
    /\ UNCHANGED addrVars
    /\ UNCHANGED capnVars
    /\ UNCHANGED edgeVars
    /\ UNCHANGED mtxVars
    /\ UNCHANGED emVars

\* onSyncEv with any other sync code.  For CREATE and BARRIER this step is
\* onCreate / onBarrier: gMtx is taken, the table updated with currentTID
\* (be a context cached or not) and gMtx released; the handler goes on with
\* SyncFlush.  Every other code goes to convertAndFlush at once, and gMtx is
\* not touched: a known code calls cachedTCxt->onSync(), which with
\* cachedTCxt == nullptr is undefined behaviour (the process is killed, or
\* goes on with nothing the model tracks changed); an unknown code makes no
\* call and the handler returns.
SyncStep(type, id, limit) ==
    /\ Running(limit)
    /\ IF type \in {"CREATE", "BARRIER"}
       THEN /\ threadSpawns' = IF type = "CREATE"
                               THEN onCreate(threadSpawns, currentTID, id)
                               ELSE threadSpawns
            /\ barrierParticipants' = IF type = "BARRIER"
                                      THEN onBarrier(barrierParticipants, currentTID, id)
                                      ELSE barrierParticipants
            /\ phase' = "flush"
            /\ UNCHANGED tcxts
       ELSE IF ConvertSyncType(type) > 0 /\ cachedTCxt = NullTCxt
            THEN /\ phase' \in {"crashed", "run"}
                 /\ UNCHANGED <<tcxts, threadSpawns, barrierParticipants>>
            ELSE /\ tcxts' = convertAndFlush(tcxts, cachedTCxt, type, id)
                 /\ UNCHANGED <<threadSpawns, barrierParticipants, phase>>
    /\ nprims' = nprims + 1
    /\ lastPrim' = Prim(type, id, 0)
    /\ UNCHANGED <<currentTID, cachedTCxt, shadow, newThreadsInOrder,
                   allThreadsStats, primsPerStCompEv, ndebug>>
    /\ UNCHANGED addrVars
    /\ UNCHANGED capnVars
    /\ UNCHANGED edgeVars
    /\ UNCHANGED mtxVars
    /\ UNCHANGED emVars

\* onSyncEv after onCreate / onBarrier returned and released gMtx:
\* convertAndFlush(syncType, syncID), which calls cachedTCxt->onSync(); with
\* cachedTCxt == nullptr that is undefined behaviour.
SyncFlush ==
    /\ phase = "flush"
    /\ IF cachedTCxt = NullTCxt
       THEN /\ phase' \in {"crashed", "run"}
            /\ UNCHANGED tcxts
       ELSE /\ tcxts' = convertAndFlush(tcxts, cachedTCxt, lastPrim.op, lastPrim.a)
            /\ phase' = "run"
    /\ UNCHANGED <<currentTID, cachedTCxt, shadow, newThreadsInOrder, threadSpawns,
                   barrierParticipants, allThreadsStats, primsPerStCompEv, ndebug,
                   nprims, lastPrim>>
    /\ UNCHANGED addrVars
    /\ UNCHANGED capnVars
    /\ UNCHANGED edgeVars
    /\ UNCHANGED mtxVars
    /\ UNCHANGED emVars

\* onMemEv with SGLPRIM_MEM_LOAD
LoadStep(start, size, limit) ==
    /\ Forwarding(limit)
    /\ IF ~ndebug /\ onReadAsserts(tcxts[cachedTCxt], shadow, start, size)
       THEN /\ phase' = "aborted"
            /\ UNCHANGED <<tcxts, shadow>>
       ELSE /\ LET r == onRead(tcxts[cachedTCxt], shadow, start, size)
               IN  /\ tcxts' = [tcxts EXCEPT ![cachedTCxt] = r.tc]
                   /\ shadow' = r.shadow
            /\ UNCHANGED phase
    /\ nprims' = nprims + 1
    /\ lastPrim' = Prim("Load", start, size)
    /\ UNCHANGED <<currentTID, cachedTCxt, newThreadsInOrder, threadSpawns,
                   barrierParticipants, allThreadsStats, primsPerStCompEv, ndebug>>
    /\ UNCHANGED addrVars
    /\ UNCHANGED capnVars
    /\ UNCHANGED edgeVars
    /\ UNCHANGED mtxVars
    /\ UNCHANGED emVars

\* onMemEv with SGLPRIM_MEM_STORE
StoreStep(start, size, limit) ==
    /\ Forwarding(limit)
    /\ IF ~ndebug /\ onWriteAsserts(tcxts[cachedTCxt], start, size)
       THEN /\ phase' = "aborted"
            /\ UNCHANGED <<tcxts, shadow>>
       ELSE /\ LET r == onWrite(tcxts[cachedTCxt], shadow, start, size)
               IN  /\ tcxts' = [tcxts EXCEPT ![cachedTCxt] = r.tc]
                   /\ shadow' = r.shadow
            /\ UNCHANGED phase
    /\ nprims' = nprims + 1
    /\ lastPrim' = Prim("Store", start, size)
    /\ UNCHANGED <<currentTID, cachedTCxt, newThreadsInOrder, threadSpawns,
                   barrierParticipants, allThreadsStats, primsPerStCompEv, ndebug>>
    /\ UNCHANGED addrVars
    /\ UNCHANGED capnVars
    /\ UNCHANGED edgeVars
    /\ UNCHANGED mtxVars
    /\ UNCHANGED emVars

\* onCompEv with SGLPRIM_COMP_IOP
IopStep(limit) ==
    /\ Forwarding(limit)
    /\ tcxts' = [tcxts EXCEPT ![cachedTCxt] = onIop(@)]
    /\ nprims' = nprims + 1
    /\ lastPrim' = Prim("IOP", 0, 0)
    /\ UNCHANGED <<currentTID, cachedTCxt, shadow, newThreadsInOrder, threadSpawns,
                   barrierParticipants, allThreadsStats, primsPerStCompEv, ndebug, phase>>
    /\ UNCHANGED addrVars
    /\ UNCHANGED capnVars
    /\ UNCHANGED edgeVars
    /\ UNCHANGED mtxVars
    /\ UNCHANGED emVars

\* onCompEv with SGLPRIM_COMP_FLOP
FlopStep(limit) ==
    /\ Forwarding(limit)
    /\ tcxts' = [tcxts EXCEPT ![cachedTCxt] = onFlop(@)]
    /\ nprims' = nprims + 1
    /\ lastPrim' = Prim("FLOP", 0, 0)
    /\ UNCHANGED <<currentTID, cachedTCxt, shadow, newThreadsInOrder, threadSpawns,
                   barrierParticipants, allThreadsStats, primsPerStCompEv, ndebug, phase>>
    /\ UNCHANGED addrVars
    /\ UNCHANGED capnVars
    /\ UNCHANGED edgeVars
    /\ UNCHANGED mtxVars
    /\ UNCHANGED emVars

\* onCxtEv with SGLPRIM_CXT_INSTR
InstrStep(limit) ==
    /\ Forwarding(limit)
    /\ tcxts' = [tcxts EXCEPT ![cachedTCxt] = onInstr(@)]
    /\ nprims' = nprims + 1
    /\ lastPrim' = Prim("Instr", 0, 0)
    /\ UNCHANGED <<currentTID, cachedTCxt, shadow, newThreadsInOrder, threadSpawns,
                   barrierParticipants, allThreadsStats, primsPerStCompEv, ndebug, phase>>
    /\ UNCHANGED addrVars
    /\ UNCHANGED capnVars
    /\ UNCHANGED edgeVars
    /\ UNCHANGED mtxVars
    /\ UNCHANGED emVars

\* The stream ends: the body of ~EventHandlers takes gMtx, records the final
\* stats of every context and releases gMtx; the destructor goes on with
\* Destroy.
Finish ==
    /\ phase = "run"
    /\ allThreadsStats' = [t \in DOMAIN tcxts |-> tcxts[t].stats]
    /\ phase' = "destroy"
    /\ lastPrim' = Prim("End", 0, 0)
    /\ UNCHANGED <<tcxts, currentTID, cachedTCxt, shadow, newThreadsInOrder, threadSpawns,
                   barrierParticipants, primsPerStCompEv, ndebug, nprims>>
    /\ UNCHANGED addrVars
    /\ UNCHANGED capnVars
    /\ UNCHANGED edgeVars
    /\ UNCHANGED mtxVars
    /\ UNCHANGED emVars

\* ~EventHandlers after its body: the member tcxts is destroyed, every
\* ~ThreadContext flushing its aggregators.
Destroy ==
    /\ phase = "destroy"
    /\ tcxts' = [t \in DOMAIN tcxts |-> destroyThreadContext(tcxts[t])]
    /\ phase' = "done"
    /\ UNCHANGED <<currentTID, cachedTCxt, shadow, newThreadsInOrder, threadSpawns,
                   barrierParticipants, allThreadsStats, primsPerStCompEv, ndebug,
                   nprims, lastPrim>>
    /\ UNCHANGED addrVars
    /\ UNCHANGED capnVars
    /\ UNCHANGED edgeVars
    /\ UNCHANGED mtxVars
    /\ UNCHANGED emVars

(***************************************************************************)
(* Spec: every primitive stream of at most MaxPrims primitives over the    *)
(* inputs below that begins with a Swap, for every compression level in    *)
(* Caps.  (SpecFirst and SpecSync take the streams that do not.)           *)
(***************************************************************************)
StartAddrs == {0, 1}
SyncTypes == {"LOCK"}
SyncIds == {10}

EmptyMap == [t \in {} |-> 0]

AddrInit ==
    /\ msA = <<>> /\ msB = <<>>
    /\ ptsA = {} /\ ptsB = {}
    /\ nA = 0 /\ nB = 0

CapnInit(ns) ==
    /\ capn = CapnNew
    /\ capnN \in ns
    /\ capnIn = <<>>

\* The EventHandlers instances of SpecMtx (one per frontend thread), the
\* thread that runs onExit, and all the threads that use gMtx.
Workers == {1, 2}
MainThread == 3
Procs == Workers \cup {MainThread}
NoPrim == [op |-> "None", arg |-> 0]
\* No onRead under way.
NoLocals == [writer |-> SO_UNDEF, isReader |-> FALSE]

EdgeInit ==
    /\ stCommE = STCommReset
    /\ edgeIn = <<>>

MtxInit ==
    /\ gMtx = 0
    /\ wpc = [p \in Procs |-> "idle"]
    /\ wop = [p \in Procs |-> NoPrim]
    /\ wst = [w \in Workers |->
                 [currentTID |-> 0, cachedTCxt |-> NullTCxt, tcxts |-> EmptyMap]]
    /\ wn = 0
    /\ wloc = [w \in Workers |-> NoLocals]

\* The kinds of event the EventManager buffers, each with its notify function
\* and its observer list.
EvKinds == {"mem", "comp", "sync", "cxt"}
\* A BufferedEvent slot that was never written.
EmptySlot == [notify |-> "none", observers |-> "none", u |-> [member |-> "none", val |-> 0]]

EmInit ==
    /\ ev_buf = [i \in 0 .. MaxEvBuf - 1 |-> EmptySlot]
    /\ used = 0
    /\ observers = [mem_observers |-> <<>>, comp_observers |-> <<>>,
                    sync_observers |-> <<>>, cxt_observers |-> <<>>]
    /\ cleanup_observers = <<>>
    /\ notified = <<>>
    /\ emCall = [op |-> "none", n |-> 0]

GenInit(caps) ==
    /\ tcxts = EmptyMap
    /\ currentTID = 0
    /\ cachedTCxt = NullTCxt
    /\ shadow = ShadowInit
    /\ newThreadsInOrder = <<>>
    /\ threadSpawns = <<>>
    /\ barrierParticipants = <<>>
    /\ allThreadsStats = EmptyMap
    /\ primsPerStCompEv \in caps
    /\ ndebug \in BOOLEAN
    /\ phase = "run"
    /\ nprims = 0
    /\ lastPrim = [op |-> "None", tid |-> 0, a |-> 0, n |-> 0]

Init == GenInit(Caps) /\ AddrInit /\ CapnInit({1}) /\ EdgeInit /\ MtxInit /\ EmInit

Next ==
    \/ \E t \in Tids : SwapStep(t, MaxPrims)
    \/ \E ty \in SyncTypes, id \in SyncIds :
          cachedTCxt # NullTCxt /\ SyncStep(ty, id, MaxPrims)
    \/ \E a \in StartAddrs, n \in LoadSizes : LoadStep(a, n, MaxPrims)
    \/ \E a \in StartAddrs, n \in StoreSizes : StoreStep(a, n, MaxPrims)
    \/ IopStep(MaxPrims)
    \/ FlopStep(MaxPrims)
    \/ InstrStep(MaxPrims)
    \/ Finish
    \/ Destroy

Spec == Init /\ [][Next]_vars

(***************************************************************************)
(* SpecStores: one thread is swapped in, processes at most MaxStores       *)
(* Stores and nothing else, and the stream ends.                           *)
(***************************************************************************)
StoreCaps == 1 .. MaxStoreCap

InitStores == GenInit(StoreCaps) /\ AddrInit /\ CapnInit({1}) /\ EdgeInit /\ MtxInit /\ EmInit

NextStores ==
    \/ \E t \in Tids : SwapStep(t, 1)
    \/ \E a \in StartAddrs, n \in StoreSizes : StoreStep(a, n, MaxStores + 1)
    \/ Finish
    \/ Destroy

SpecStores == InitStores /\ [][NextStores]_vars

(***************************************************************************)
(* SpecSync: streams of at most MaxSyncPrims primitives made of swaps      *)
(* among three threads, synchronization primitives (a lock, creates and    *)
(* barrier waits on two addresses, and a sync code convertAndFlush does    *)
(* not list) and IOPs.                                                     *)
(***************************************************************************)
SyncTids == {1, 2, 3}
SyncInputs ==
    {<<"LOCK", 10>>, <<"OTHER", 10>>, <<"CREATE", 10>>, <<"CREATE", 11>>,
     <<"BARRIER", 10>>, <<"BARRIER", 11>>}

InitSync == GenInit({2}) /\ AddrInit /\ CapnInit({1}) /\ EdgeInit /\ MtxInit /\ EmInit

NextSync ==
    \/ \E t \in SyncTids : SwapStep(t, MaxSyncPrims)
    \/ \E in \in SyncInputs : SyncStep(in[1], in[2], MaxSyncPrims)
    \/ SyncFlush
    \/ IopStep(MaxSyncPrims)
    \/ Finish
    \/ Destroy

SpecSync == InitSync /\ [][NextSync]_vars

(***************************************************************************)
(* SpecZero: streams of at most MaxZeroPrims swaps and Stores of size 0 or *)
(* 1.  A Store of size 0 asks AddrSet::insert for the range (a, a - 1): at  *)
(* a start address other than 0 the assert fails, and a build with         *)
(* assertions aborts there.                                                *)
(***************************************************************************)
ZeroSizes == {0, 1}

InitZero == GenInit({2}) /\ AddrInit /\ CapnInit({1}) /\ EdgeInit /\ MtxInit /\ EmInit

NextZero ==
    \/ \E t \in Tids : SwapStep(t, MaxZeroPrims)
    \/ \E a \in StartAddrs, n \in ZeroSizes : StoreStep(a, n, MaxZeroPrims)
    \/ Finish
    \/ Destroy

SpecZero == InitZero /\ [][NextZero]_vars

(***************************************************************************)
(* SpecAddr: two AddrSets, each built from the empty set by at most        *)
(* MaxInserts calls of insert with valid ranges (first <= second).  ptsA   *)
(* and ptsB collect the addresses of the ranges inserted so far.           *)
(***************************************************************************)
RangeEnds == (0 .. MaxRangeAddr) \cup {AddrSpace - 1}
ValidRanges == {r \in RangeEnds \X RangeEnds : r[1] <= r[2]}

InsertA(range) ==
    /\ phase = "run"
    /\ nA < MaxInserts
    /\ IF ~ndebug /\ AddrSetInsertAsserts(msA, range)
       THEN /\ phase' = "aborted"
            /\ UNCHANGED <<msA, ptsA, nA>>
       ELSE /\ msA' = AddrSetInsert(msA, range)
            /\ ptsA' = ptsA \cup RangePoints(range)
            /\ nA' = nA + 1
            /\ UNCHANGED phase
    /\ UNCHANGED <<msB, ptsB, nB>>
    /\ GenRest
    /\ UNCHANGED capnVars
    /\ UNCHANGED edgeVars
    /\ UNCHANGED mtxVars
    /\ UNCHANGED emVars

InsertB(range) ==
    /\ phase = "run"
    /\ nB < MaxInserts
    /\ IF ~ndebug /\ AddrSetInsertAsserts(msB, range)
       THEN /\ phase' = "aborted"
            /\ UNCHANGED <<msB, ptsB, nB>>
       ELSE /\ msB' = AddrSetInsert(msB, range)
            /\ ptsB' = ptsB \cup RangePoints(range)
            /\ nB' = nB + 1
            /\ UNCHANGED phase
    /\ UNCHANGED <<msA, ptsA, nA>>
    /\ GenRest
    /\ UNCHANGED capnVars
    /\ UNCHANGED edgeVars
    /\ UNCHANGED mtxVars
    /\ UNCHANGED emVars

InitAddr == GenInit({1}) /\ AddrInit /\ CapnInit({1}) /\ EdgeInit /\ MtxInit /\ EmInit

NextAddr ==
    \/ \E r \in ValidRanges : InsertA(r)
    \/ \E r \in ValidRanges : InsertB(r)

SpecAddr == InitAddr /\ [][NextAddr]_vars

(***************************************************************************)
(* SpecCapn: one CapnLogger with eventsPerMessage in 1..MaxBatch is handed *)
(* at most MaxCapnEvents events, of the kinds a ThreadContext hands to its *)
(* logger, and is destroyed.                                               *)
(***************************************************************************)
\* Compute events: a local read of byte 0; a store to bytes 1..3; both.
CapnCompInputs ==
    {CompRecord(updateReads(incReads(STCompReset), 0, 1), 0, 1),
     CompRecord(updateWrites(incWrites(STCompReset), 1, 3), 0, 1),
     CompRecord(updateWrites(incWrites(updateReads(incReads(STCompReset), 0, 1)), 1, 3), 0, 1)}
CapnCommInputs == {CommRecord(addEdge(STCommReset, 2, 0, 0), 0, 1)}
CapnSyncInputs == {SyncRecord(1, 10, 0, 1), SyncRecord(5, 11, 0, 1)}

CapnAccepting == ~capn.closed /\ Len(capnIn) < MaxCapnEvents

\* CapnLogger::flush(const STCompEvent&, EID, TID)
CapnFlushComp(rec) ==
    /\ CapnAccepting
    /\ capn' = CapnEmplace(capn, CapnCompEvent(rec), capnN)
    /\ capnIn' = Append(capnIn, rec)
    /\ UNCHANGED capnN
    /\ UNCHANGED genVars
    /\ UNCHANGED addrVars
    /\ UNCHANGED edgeVars
    /\ UNCHANGED mtxVars
    /\ UNCHANGED emVars

\* CapnLogger::flush(const STCommEvent&, EID, TID)
CapnFlushComm(rec) ==
    /\ CapnAccepting
    /\ capn' = CapnEmplace(capn, CapnCommEvent(rec), capnN)
    /\ capnIn' = Append(capnIn, rec)
    /\ UNCHANGED capnN
    /\ UNCHANGED genVars
    /\ UNCHANGED addrVars
    /\ UNCHANGED edgeVars
    /\ UNCHANGED mtxVars
    /\ UNCHANGED emVars

\* CapnLogger::flush(syncType, syncAddr, EID, TID); a type outside 1..10
\* is fatal.
CapnFlushSync(rec) ==
    /\ CapnAccepting
    /\ rec.type \in 1 .. 10
    /\ capn' = CapnEmplace(capn, CapnSyncEvent(rec), capnN)
    /\ capnIn' = Append(capnIn, rec)
    /\ UNCHANGED capnN
    /\ UNCHANGED genVars
    /\ UNCHANGED addrVars
    /\ UNCHANGED edgeVars
    /\ UNCHANGED mtxVars
    /\ UNCHANGED emVars

\* CapnLogger::instrMarker(limit)
CapnInstrMarker(limit) ==
    /\ CapnAccepting
    /\ capn' = CapnEmplace(capn, CapnMarkerEvent(MarkerRecord(limit)), capnN)
    /\ capnIn' = Append(capnIn, MarkerRecord(limit))
    /\ UNCHANGED capnN
    /\ UNCHANGED genVars
    /\ UNCHANGED addrVars
    /\ UNCHANGED edgeVars
    /\ UNCHANGED mtxVars
    /\ UNCHANGED emVars

\* CapnLogger::~CapnLogger
CapnClose ==
    /\ ~capn.closed
    /\ capn' = CapnDestroy(capn)
    /\ UNCHANGED <<capnN, capnIn>>
    /\ UNCHANGED genVars
    /\ UNCHANGED addrVars
    /\ UNCHANGED edgeVars
    /\ UNCHANGED mtxVars
    /\ UNCHANGED emVars

InitCapn == GenInit({1}) /\ AddrInit /\ CapnInit(1 .. MaxBatch) /\ EdgeInit /\ MtxInit /\ EmInit

NextCapn ==
    \/ \E rec \in CapnCompInputs : CapnFlushComp(rec)
    \/ \E rec \in CapnCommInputs : CapnFlushComm(rec)
    \/ \E rec \in CapnSyncInputs : CapnFlushSync(rec)
    \/ CapnInstrMarker(InstrLimit)
    \/ CapnClose

SpecCapn == InitCapn /\ [][NextCapn]_vars

(***************************************************************************)
(* SpecInstr: one thread is swapped in, may process one IOP, and then      *)
(* processes Instr primitives until the stream ends.                       *)
(***************************************************************************)
InitInstr == GenInit({2}) /\ AddrInit /\ CapnInit({1}) /\ EdgeInit /\ MtxInit /\ EmInit

NextInstr ==
    \/ \E t \in Tids : SwapStep(t, 1)
    \/ IopStep(2)
    \/ InstrStep(MaxInstrPrims)
    \/ Finish
    \/ Destroy

SpecInstr == InitInstr /\ [][NextInstr]_vars

(***************************************************************************)
(* SpecIops: streams of at most MaxIopPrims primitives.  Swaps, one Store, *)
(* Loads and FLOPs occur among the first four primitives (enough for a     *)
(* thread to hold an active communication aggregator); IOPs occur anywhere.*)
(***************************************************************************)
InitIops == GenInit({2}) /\ AddrInit /\ CapnInit({1}) /\ EdgeInit /\ MtxInit /\ EmInit

NextIops ==
    \/ \E t \in Tids : SwapStep(t, 3)
    \/ \E a \in StartAddrs, n \in StoreSizes : StoreStep(a, n, 2)
    \/ \E a \in StartAddrs, n \in LoadSizes : LoadStep(a, n, 4)
    \/ FlopStep(4)
    \/ IopStep(MaxIopPrims)
    \/ Finish
    \/ Destroy

SpecIops == InitIops /\ [][NextIops]_vars

(***************************************************************************)
(* SpecEdge: one STCommEvent receives at most MaxEdgeCalls addEdge calls   *)
(* between resets.                                                         *)
(***************************************************************************)
EdgeWriters == {1, 2}
EdgeEvents == {0, 1}
EdgeAddrs == {0, 1, 3}

\* STCommEvent::addEdge(writer, writer_event, addr)
AddEdgeCall(writer, writer_event, addr) ==
    /\ phase = "run"
    /\ Len(edgeIn) < MaxEdgeCalls
    /\ IF ~ndebug /\ addEdgeAsserts(stCommE, writer, writer_event, addr)
       THEN /\ phase' = "aborted"
            /\ UNCHANGED edgeVars
       ELSE /\ stCommE' = addEdge(stCommE, writer, writer_event, addr)
            /\ edgeIn' = Append(edgeIn, <<writer, writer_event, addr>>)
            /\ UNCHANGED phase
    /\ GenRest
    /\ UNCHANGED addrVars
    /\ UNCHANGED capnVars
    /\ UNCHANGED mtxVars
    /\ UNCHANGED emVars

\* STCommEvent::reset()
EdgeReset ==
    /\ phase = "run"
    /\ edgeIn # <<>>
    /\ stCommE' = STCommReset
    /\ edgeIn' = <<>>
    /\ UNCHANGED genVars
    /\ UNCHANGED addrVars
    /\ UNCHANGED capnVars
    /\ UNCHANGED mtxVars
    /\ UNCHANGED emVars

InitEdge == GenInit({1}) /\ AddrInit /\ CapnInit({1}) /\ EdgeInit /\ MtxInit /\ EmInit

NextEdge ==
    \/ \E w \in EdgeWriters, e \in EdgeEvents, a \in EdgeAddrs : AddEdgeCall(w, e, a)
    \/ EdgeReset

SpecEdge == InitEdge /\ [][NextEdge]_vars

(***************************************************************************)
(* SpecProd: streams of at most MaxProdPrims primitives made of swaps      *)
(* between two threads, Stores and Loads of the byte at address 0, and     *)
(* IOPs, at compression level 2.                                           *)
(***************************************************************************)
InitProd == GenInit({2}) /\ AddrInit /\ CapnInit({1}) /\ EdgeInit /\ MtxInit /\ EmInit

NextProd ==
    \/ \E t \in Tids : SwapStep(t, MaxProdPrims)
    \/ StoreStep(0, 1, MaxProdPrims)
    \/ LoadStep(0, 1, MaxProdPrims)
    \/ IopStep(MaxProdPrims)
    \/ Finish
    \/ Destroy

SpecProd == InitProd /\ [][NextProd]_vars

(***************************************************************************)
(* SpecFirst: streams of at most MaxFirstPrims primitives that need not    *)
(* begin with a Swap.  A Load, Store, IOP, FLOP, Instr or forwarded Sync   *)
(* dispatched while cachedTCxt is null calls a member function through the *)
(* null pointer (undefined behaviour): the process is killed, or goes on   *)
(* with nothing the model tracks changed.                                  *)
(***************************************************************************)
ForwardedOps == {"Load", "Store", "IOP", "FLOP", "Instr"}

\* onCompEv / onMemEv / onCxtEv: cachedTCxt->on...() with
\* cachedTCxt == nullptr (SyncStep has the same call of convertAndFlush)
NullForward(op, limit) ==
    /\ Running(limit)
    /\ cachedTCxt = NullTCxt
    /\ phase' \in {"crashed", "run"}
    /\ nprims' = nprims + 1
    /\ lastPrim' = Prim(op, 0, 0)
    /\ UNCHANGED <<tcxts, currentTID, cachedTCxt, shadow, newThreadsInOrder,
                   threadSpawns, barrierParticipants, allThreadsStats, primsPerStCompEv, ndebug>>
    /\ UNCHANGED addrVars
    /\ UNCHANGED capnVars
    /\ UNCHANGED edgeVars
    /\ UNCHANGED mtxVars
    /\ UNCHANGED emVars

InitFirst == GenInit({2}) /\ AddrInit /\ CapnInit({1}) /\ EdgeInit /\ MtxInit /\ EmInit

NextFirst ==
    \/ \E t \in Tids : SwapStep(t, MaxFirstPrims)
    \/ \E op \in ForwardedOps : NullForward(op, MaxFirstPrims)
    \/ \E ty \in SyncTypes, id \in SyncIds : SyncStep(ty, id, MaxFirstPrims)
    \/ \E a \in StartAddrs, n \in LoadSizes : LoadStep(a, n, MaxFirstPrims)
    \/ \E a \in StartAddrs, n \in StoreSizes : StoreStep(a, n, MaxFirstPrims)
    \/ IopStep(MaxFirstPrims)
    \/ FlopStep(MaxFirstPrims)
    \/ InstrStep(MaxFirstPrims)
    \/ Finish
    \/ Destroy

SpecFirst == InitFirst /\ [][NextFirst]_vars

(***************************************************************************)
(* SpecMtx: the EventHandlers instances run concurrently, each on its own  *)
(* thread with its own thread ids, and share gMtx and the metadata tables. *)
(* A handler that constructs std::lock_guard<std::mutex> lock(gMtx) is     *)
(* split at the lock: begin, lock (blocks while the mutex is held), access *)
(* to the tables, unlock at the end of the guard's scope.  At most         *)
(* MaxMtxPrims primitives are dispatched; then every instance is destroyed *)
(* and onExit runs.  Outside the guarded scope a handler works on the      *)
(* thread contexts of its own instance, which no other instance sees, and  *)
(* on the shadow memory, which all instances share without a lock: it is   *)
(* split at its calls of the shadow memory, one call per step, so that the *)
(* calls of two instances interleave.  onWrite makes one call              *)
(* (updateWriter); onRead makes up to four per byte.  Loads and Stores are *)
(* of the one byte MtxMemAddr, where no insert fails its assert.           *)
(***************************************************************************)
WorkerTids(w) == {w, w + 2}
MtxAddrs == {10}
\* Handlers that take gMtx, and primitives handled without it.
LockedOps == {"Swap", "CREATE", "BARRIER", "End", "Exit"}
UnlockedOps == {"Load", "Store", "IOP", "FLOP", "Instr", "LOCK"}

MtxTables == <<newThreadsInOrder, threadSpawns, barrierParticipants, allThreadsStats>>
MtxMemAddr == 0
MtxOther ==
    /\ UNCHANGED <<tcxts, currentTID, cachedTCxt, primsPerStCompEv, ndebug, phase,
                   nprims, lastPrim>>
    /\ UNCHANGED addrVars
    /\ UNCHANGED capnVars
    /\ UNCHANGED edgeVars
    /\ UNCHANGED emVars
MtxRest == MtxOther /\ UNCHANGED wloc

MtxDispatching(w) == wpc[w] = "idle" /\ wn < MaxMtxPrims

\* onCompEv / onMemEv (Store) / onCxtEv / onSyncEv with another sync kind:
\* the primitive goes to the cached thread context; gMtx is not touched.
\* onWrite calls the shadow memory once (updateWriter).  With cachedTCxt ==
\* nullptr the call is undefined behaviour: the process, with all its
\* threads, is killed, or goes on with nothing the model tracks changed.
MtxForward(w, op) ==
    /\ MtxDispatching(w)
    /\ IF wst[w].cachedTCxt = NullTCxt
       THEN /\ wpc' \in {[p \in Procs |-> "crashed"], wpc}
            /\ UNCHANGED <<wst, shadow>>
       ELSE /\ LET cached == wst[w].cachedTCxt
                   tc     == wst[w].tcxts[cached]
               IN  CASE op = "IOP" ->
                          /\ wst' = [wst EXCEPT ![w].tcxts[cached] = onIop(tc)]
                          /\ UNCHANGED shadow
                     [] op = "FLOP" ->
                          /\ wst' = [wst EXCEPT ![w].tcxts[cached] = onFlop(tc)]
                          /\ UNCHANGED shadow
                     [] op = "Instr" ->
                          /\ wst' = [wst EXCEPT ![w].tcxts[cached] = onInstr(tc)]
                          /\ UNCHANGED shadow
                     [] op = "Store" ->
                          /\ wst' = [wst EXCEPT ![w].tcxts[cached] =
                                        onWrite(tc, shadow, MtxMemAddr, 1).tc]
                          /\ shadow' = onWrite(tc, shadow, MtxMemAddr, 1).shadow
                     [] OTHER ->
                          /\ wst' = [wst EXCEPT ![w].tcxts =
                                        convertAndFlush(@, cached, op, MtxMemAddr)]
                          /\ UNCHANGED shadow
            /\ UNCHANGED wpc
    /\ wop' = [wop EXCEPT ![w] = [op |-> op, arg |-> MtxMemAddr]]
    /\ wn' = wn + 1
    /\ UNCHANGED gMtx
    /\ UNCHANGED MtxTables
    /\ MtxRest

\* onMemEv (Load): onRead of the one byte, up to and with its first call of
\* the shadow memory, writer = shadow.getWriterTID(addr).  With cachedTCxt
\* == nullptr the call of onRead is undefined behaviour.
MtxGetWriterTID(w) ==
    /\ MtxDispatching(w)
    /\ IF wst[w].cachedTCxt = NullTCxt
       THEN /\ wpc' \in {[p \in Procs |-> "crashed"], wpc}
            /\ UNCHANGED wloc
       ELSE /\ wloc' = [wloc EXCEPT ![w] = [writer |-> getWriterTID(shadow, MtxMemAddr),
                                            isReader |-> FALSE]]
            /\ wpc' = [wpc EXCEPT ![w] = "isReaderTID"]
    /\ wop' = [wop EXCEPT ![w] = [op |-> "Load", arg |-> MtxMemAddr]]
    /\ wn' = wn + 1
    /\ UNCHANGED <<gMtx, wst>>
    /\ UNCHANGED MtxTables
    /\ UNCHANGED shadow
    /\ MtxOther

\* onRead: isReader = shadow.isReaderTID(addr, tid)
MtxIsReaderTID(w) ==
    /\ wpc[w] = "isReaderTID"
    /\ LET isReader == isReaderTID(shadow, wop[w].arg, wst[w].cachedTCxt)
       IN  /\ wloc' = [wloc EXCEPT ![w].isReader = isReader]
           /\ wpc' = [wpc EXCEPT ![w] = IF isReader = FALSE THEN "updateReader"
                                                            ELSE "classify"]
    /\ UNCHANGED <<gMtx, wop, wst, wn>>
    /\ UNCHANGED MtxTables
    /\ UNCHANGED shadow
    /\ MtxOther

\* onRead: if (isReader == false) shadow.updateReader(addr, 1, tid)
MtxUpdateReader(w) ==
    /\ wpc[w] = "updateReader"
    /\ shadow' = updateReader(shadow, wop[w].arg, 1, wst[w].cachedTCxt)
    /\ wpc' = [wpc EXCEPT ![w] = "classify"]
    /\ UNCHANGED <<gMtx, wop, wst, wn, wloc>>
    /\ UNCHANGED MtxTables
    /\ MtxOther

\* onRead from the comm-edge test on: the byte becomes an edge from
\* (writer, shadow.getWriterEID(addr)) or a local read, and the handler ends
\* (onReadEnd).
MtxClassify(w) ==
    /\ wpc[w] = "classify"
    /\ LET cached == wst[w].cachedTCxt
           tc     == wst[w].tcxts[cached]
           addr   == wop[w].arg
           edge   == IsCommEdge(wloc[w].isReader, wloc[w].writer, tc.tid)
           t1     == IF edge
                     THEN [tc EXCEPT !.stComm =
                             addEdge(@, wloc[w].writer, getWriterEID(shadow, addr), addr)]
                     ELSE [tc EXCEPT !.stComp = updateReads(@, addr, 1)]
       IN  wst' = [wst EXCEPT ![w].tcxts[cached] = onReadEnd(t1, edge)]
    /\ wloc' = [wloc EXCEPT ![w] = NoLocals]
    /\ wpc' = [wpc EXCEPT ![w] = "idle"]
    /\ UNCHANGED <<gMtx, wop, wn>>
    /\ UNCHANGED MtxTables
    /\ UNCHANGED shadow
    /\ MtxOther

\* onSwapTCxt(newTID) with currentTID == newTID: nothing is done.
MtxSwapSame(w) ==
    /\ MtxDispatching(w)
    /\ wst[w].currentTID # 0
    /\ wop' = [wop EXCEPT ![w] = [op |-> "SwapSame", arg |-> wst[w].currentTID]]
    /\ wn' = wn + 1
    /\ UNCHANGED <<gMtx, wpc, wst>>
    /\ UNCHANGED MtxTables
    /\ UNCHANGED shadow
    /\ MtxRest

\* onSwapTCxt(newTID) with currentTID != newTID, up to the lock_guard.
MtxBeginSwap(w, newTID) ==
    /\ MtxDispatching(w)
    /\ wst[w].currentTID # newTID
    /\ wop' = [wop EXCEPT ![w] = [op |-> "Swap", arg |-> newTID]]
    /\ wpc' = [wpc EXCEPT ![w] = "lock"]
    /\ wn' = wn + 1
    /\ UNCHANGED <<gMtx, wst>>
    /\ UNCHANGED MtxTables
    /\ UNCHANGED shadow
    /\ MtxRest

\* onSyncEv with CREATE or BARRIER: onCreate / onBarrier up to the lock_guard.
MtxBeginSync(w, type, data) ==
    /\ MtxDispatching(w)
    /\ wop' = [wop EXCEPT ![w] = [op |-> type, arg |-> data]]
    /\ wpc' = [wpc EXCEPT ![w] = "lock"]
    /\ wn' = wn + 1
    /\ UNCHANGED <<gMtx, wst>>
    /\ UNCHANGED MtxTables
    /\ UNCHANGED shadow
    /\ MtxRest

\* ~EventHandlers up to the lock_guard.
MtxBeginEnd(w) ==
    /\ wpc[w] = "idle"
    /\ wop' = [wop EXCEPT ![w] = [op |-> "End", arg |-> 0]]
    /\ wpc' = [wpc EXCEPT ![w] = "lock"]
    /\ UNCHANGED <<gMtx, wst, wn>>
    /\ UNCHANGED MtxTables
    /\ UNCHANGED shadow
    /\ MtxRest

\* onExit up to the lock_guard: runs once every instance is destroyed.
MtxBeginExit ==
    /\ wpc[MainThread] = "idle"
    /\ \A w \in Workers : wpc[w] = "ended"
    /\ wop' = [wop EXCEPT ![MainThread] = [op |-> "Exit", arg |-> 0]]
    /\ wpc' = [wpc EXCEPT ![MainThread] = "lock"]
    /\ UNCHANGED <<gMtx, wst, wn>>
    /\ UNCHANGED MtxTables
    /\ UNCHANGED shadow
    /\ MtxRest

\* A lock_guard constructed without waiting for the mutex to be free.
MtxLock_NoWait(p) ==
    /\ wpc[p] = "lock"
    /\ gMtx' = p
    /\ wpc' = [wpc EXCEPT ![p] = "critical"]
    /\ UNCHANGED <<wop, wst, wn>>
    /\ UNCHANGED MtxTables
    /\ UNCHANGED shadow
    /\ MtxRest

\* std::lock_guard<std::mutex> lock(gMtx)
MtxLock(p) ==
    /\ wpc[p] = "lock"
    /\ gMtx = 0
    /\ gMtx' = p
    /\ wpc' = [wpc EXCEPT ![p] = "critical"]
    /\ UNCHANGED <<wop, wst, wn>>
    /\ UNCHANGED MtxTables
    /\ UNCHANGED shadow
    /\ MtxRest

\* The body of the guarded scope.  onSwapTCxt: the thread is registered and
\* its context made when unseen, the outgoing context is flushed, currentTID
\* and cachedTCxt are set.  onCreate, onBarrier: the pair is recorded.
\* ~EventHandlers: the stats of every context are put into allThreadsStats
\* (emplace keeps an entry that is there).  onExit reads the tables.
MtxAccess(p) ==
    /\ wpc[p] = "critical"
    /\ LET op   == wop[p].op
           arg  == wop[p].arg
           seen == InList(newThreadsInOrder, arg)
       IN  /\ newThreadsInOrder' =
                 IF op = "Swap" /\ ~seen
                 THEN Append(newThreadsInOrder, arg) ELSE newThreadsInOrder
           /\ wst' = IF op = "Swap"
                     THEN [wst EXCEPT ![p] =
                             [currentTID |-> arg, cachedTCxt |-> arg,
                              tcxts |-> SwapContexts(@.tcxts, newThreadsInOrder,
                                                     @.cachedTCxt, arg, primsPerStCompEv)]]
                     ELSE wst
           /\ threadSpawns' =
                 IF op = "CREATE"
                 THEN onCreate(threadSpawns, wst[p].currentTID, arg) ELSE threadSpawns
           /\ barrierParticipants' =
                 IF op = "BARRIER"
                 THEN onBarrier(barrierParticipants, wst[p].currentTID, arg)
                 ELSE barrierParticipants
           /\ allThreadsStats' =
                 IF op = "End"
                 THEN [t \in (DOMAIN allThreadsStats) \cup (DOMAIN wst[p].tcxts) |->
                         IF t \in DOMAIN allThreadsStats THEN allThreadsStats[t]
                         ELSE wst[p].tcxts[t].stats]
                 ELSE allThreadsStats
    /\ wpc' = [wpc EXCEPT ![p] = "unlock"]
    /\ UNCHANGED <<gMtx, wop, wn>>
    /\ UNCHANGED shadow
    /\ MtxRest

\* The end of the guarded scope: ~lock_guard unlocks gMtx.  onSyncEv goes on
\* to convertAndFlush, ~EventHandlers to the destruction of its members.
MtxUnlock(p) ==
    /\ wpc[p] = "unlock"
    /\ gMtx' = 0
    /\ wpc' = [wpc EXCEPT ![p] = CASE wop[p].op \in {"CREATE", "BARRIER"} -> "flush"
                                    [] wop[p].op = "End" -> "destroy"
                                    [] wop[p].op = "Exit" -> "ended"
                                    [] OTHER -> "idle"]
    /\ UNCHANGED <<wop, wst, wn>>
    /\ UNCHANGED MtxTables
    /\ UNCHANGED shadow
    /\ MtxRest

\* onSyncEv after onCreate / onBarrier returned: convertAndFlush, which
\* calls cachedTCxt->onSync(); with cachedTCxt == nullptr that is undefined
\* behaviour.
MtxFlush(w) ==
    /\ wpc[w] = "flush"
    /\ IF wst[w].cachedTCxt = NullTCxt
       THEN /\ wpc' \in {[p \in Procs |-> "crashed"], [wpc EXCEPT ![w] = "idle"]}
            /\ UNCHANGED wst
       ELSE /\ wst' = [wst EXCEPT ![w].tcxts =
                          convertAndFlush(@, wst[w].cachedTCxt, wop[w].op, wop[w].arg)]
            /\ wpc' = [wpc EXCEPT ![w] = "idle"]
    /\ UNCHANGED <<gMtx, wop, wn>>
    /\ UNCHANGED MtxTables
    /\ UNCHANGED shadow
    /\ MtxRest

\* ~EventHandlers after its body: the member tcxts is destroyed, every
\* ~ThreadContext flushing its aggregators.
MtxDestroy(w) ==
    /\ wpc[w] = "destroy"
    /\ wst' = [wst EXCEPT ![w].tcxts =
                  [t \in DOMAIN @ |-> destroyThreadContext(@[t])]]
    /\ wpc' = [wpc EXCEPT ![w] = "ended"]
    /\ UNCHANGED <<gMtx, wop, wn>>
    /\ UNCHANGED MtxTables
    /\ UNCHANGED shadow
    /\ MtxRest

\* No assert fails in these streams, so the two builds behave alike; the
\* build with assertions is taken.
InitMtx == GenInit({1}) /\ ~ndebug /\ AddrInit /\ CapnInit({1}) /\ EdgeInit /\ MtxInit /\ EmInit

NextMtx ==
    \/ \E w \in Workers, op \in UnlockedOps \ {"Load"} : MtxForward(w, op)
    \/ \E w \in Workers : MtxGetWriterTID(w)
    \/ \E w \in Workers : MtxIsReaderTID(w)
    \/ \E w \in Workers : MtxUpdateReader(w)
    \/ \E w \in Workers : MtxClassify(w)
    \/ \E w \in Workers : MtxSwapSame(w)
    \/ \E w \in Workers : \E t \in WorkerTids(w) : MtxBeginSwap(w, t)
    \/ \E w \in Workers, ty \in {"CREATE", "BARRIER"}, a \in MtxAddrs : MtxBeginSync(w, ty, a)
    \/ \E w \in Workers : MtxBeginEnd(w)
    \/ MtxBeginExit
    \/ \E p \in Procs : MtxLock(p)
    \/ \E p \in Procs : MtxAccess(p)
    \/ \E p \in Procs : MtxUnlock(p)
    \/ \E w \in Workers : MtxFlush(w)
    \/ \E w \in Workers : MtxDestroy(w)

SpecMtx == InitMtx /\ [][NextMtx]_vars

(***************************************************************************)
(* EventManager (src/Sigil2/EventManager.cpp): events are buffered in      *)
(* ev_buf, each slot holding the event (a union with one member per kind), *)
(* a pointer to the notify function of its kind and a pointer to the       *)
(* observer list of its kind; flushEvents and finish deliver them.  An     *)
(* observer is a std::function copied into its list, identified here by    *)
(* the number of its registration; `notified` is the sequence of calls the *)
(* observers receive.                                                      *)
(***************************************************************************)
\* The event payloads buffered by SpecEm.
EvVals == {0, 1}
\* The notify function, the observer list and the union member of a kind.
NotifyOf(k) == CASE k = "mem" -> "notifyMemObservers"
                 [] k = "comp" -> "notifyCompObservers"
                 [] k = "sync" -> "notifySyncObservers"
                 [] k = "cxt" -> "notifyCxtObservers"
ListOf(k) == CASE k = "mem" -> "mem_observers"
               [] k = "comp" -> "comp_observers"
               [] k = "sync" -> "sync_observers"
               [] k = "cxt" -> "cxt_observers"
MemberOf(k) == CASE k = "mem" -> "mem_ev"
                 [] k = "comp" -> "comp_ev"
                 [] k = "sync" -> "sync_ev"
                 [] k = "cxt" -> "cxt_ev"
\* The number of observers registered so far, of events and of cleanup.
NumObservers(lists, cleanups) ==
    Len(lists.mem_observers) + Len(lists.comp_observers) + Len(lists.sync_observers)
        + Len(lists.cxt_observers) + Len(cleanups)

\* notifyMemObservers ... notifyCxtObservers: every observer of the list the
\* slot points to is called, in list order, with the slot's member of kind k.
notifyObservers(k, ev, lists) ==
    [i \in 1 .. Len(lists[ev.observers]) |->
        [obs |-> lists[ev.observers][i], kind |-> k, member |-> ev.u.member, ev |-> ev.u.val]]

\* ev_buf[i].notify(ev_buf[i])
CallNotify(ev, lists) ==
    CASE ev.notify = "notifyMemObservers" -> notifyObservers("mem", ev, lists)
      [] ev.notify = "notifyCompObservers" -> notifyObservers("comp", ev, lists)
      [] ev.notify = "notifySyncObservers" -> notifyObservers("sync", ev, lists)
      [] ev.notify = "notifyCxtObservers" -> notifyObservers("cxt", ev, lists)

\* The loop of flushEvents: for (i = 0; i < used; ++i) ev_buf[i].notify(ev_buf[i])
RECURSIVE flushLoop(_, _, _, _)
flushLoop(i, buf, n, lists) ==
    IF i < n THEN CallNotify(buf[i], lists) \o flushLoop(i + 1, buf, n, lists)
    ELSE <<>>

\* The loop of finish: every cleanup observer is called, in list order.
cleanupLoop(cleanups) ==
    [i \in 1 .. Len(cleanups) |-> [obs |-> cleanups[i], kind |-> "cleanup", member |-> "none", ev |-> 0]]

\* A finish that runs the cleanup observers before it flushes.
finishCalls_CleanupFirst(buf, n, lists, cleanups) ==
    cleanupLoop(cleanups) \o flushLoop(0, buf, n, lists)

\* The calls finish makes: flushEvents(), then the cleanup observers.
finishCalls(buf, n, lists, cleanups) ==
    flushLoop(0, buf, n, lists) \o cleanupLoop(cleanups)

EmRest ==
    /\ UNCHANGED genVars
    /\ UNCHANGED addrVars
    /\ UNCHANGED capnVars
    /\ UNCHANGED edgeVars
    /\ UNCHANGED mtxVars

\* EventManager::addObserver, one overload per kind
addObserver(k) ==
    /\ emCall.n < MaxEmCalls
    /\ NumObservers(observers, cleanup_observers) < MaxObservers
    /\ observers' = [observers EXCEPT ![ListOf(k)] =
                        Append(@, NumObservers(observers, cleanup_observers) + 1)]
    /\ emCall' = [op |-> "addObserver", n |-> emCall.n + 1]
    /\ UNCHANGED <<ev_buf, used, cleanup_observers, notified>>
    /\ EmRest

\* EventManager::addCleanup
addCleanup ==
    /\ emCall.n < MaxEmCalls
    /\ NumObservers(observers, cleanup_observers) < MaxObservers
    /\ cleanup_observers' = Append(cleanup_observers,
                                   NumObservers(observers, cleanup_observers) + 1)
    /\ emCall' = [op |-> "addCleanup", n |-> emCall.n + 1]
    /\ UNCHANGED <<ev_buf, used, observers, notified>>
    /\ EmRest

\* EventManager::bufferEvent, one overload per kind; the caller keeps used
\* below the size of ev_buf.
bufferEvent(k, v) ==
    /\ emCall.n < MaxEmCalls
    /\ used < MaxEvBuf
    /\ ev_buf' = [ev_buf EXCEPT ![used] =
                     [notify |-> NotifyOf(k), observers |-> ListOf(k),
                      u |-> [member |-> MemberOf(k), val |-> v]]]
    /\ used' = used + 1
    /\ emCall' = [op |-> "bufferEvent", n |-> emCall.n + 1]
    /\ UNCHANGED <<observers, cleanup_observers, notified>>
    /\ EmRest

\* EventManager::flushEvents
flushEvents ==
    /\ emCall.n < MaxEmCalls
    /\ notified' = notified \o flushLoop(0, ev_buf, used, observers)
    /\ used' = 0
    /\ emCall' = [op |-> "flushEvents", n |-> emCall.n + 1]
    /\ UNCHANGED <<ev_buf, observers, cleanup_observers>>
    /\ EmRest

\* EventManager::finish
finish ==
    /\ emCall.n < MaxEmCalls
    /\ notified' = notified \o finishCalls(ev_buf, used, observers, cleanup_observers)
    /\ used' = 0
    /\ emCall' = [op |-> "finish", n |-> emCall.n + 1]
    /\ UNCHANGED <<ev_buf, observers, cleanup_observers>>
    /\ EmRest

InitEm == GenInit({1}) /\ AddrInit /\ CapnInit({1}) /\ EdgeInit /\ MtxInit /\ EmInit

NextEm ==
    \/ \E k \in EvKinds : addObserver(k)
    \/ addCleanup
    \/ \E k \in EvKinds, v \in EvVals : bufferEvent(k, v)
    \/ flushEvents
    \/ finish

SpecEm == InitEm /\ [][NextEm]_vars

(***************************************************************************)
(* Observations used by the properties.                                    *)
(***************************************************************************)
Threads == DOMAIN tcxts
Trace(t) == tcxts[t].logger
IsEidRecord(r) == r.kind # "marker"
EidRecords(t) == SelectSeq(Trace(t), IsEidRecord)
IsCompRecord(r) == r.kind = "comp"
IsCommRecord(r) == r.kind = "comm"
CompRecords(t) == SelectSeq(Trace(t), IsCompRecord)
CommRecords(t) == SelectSeq(Trace(t), IsCommRecord)
\* The records appended to a log that grew from old to new.
Appended(old, new) == SubSeq(new, Len(old) + 1, Len(new))
\* The (writer, writer event, address) triples held by a communication aggregator.
CommTriples(m) ==
    UNION {{<<m.comms[i][1], m.comms[i][2], a>> : a \in Points(m.comms[i][3])}
           : i \in 1..Len(m.comms)}
\* The step just taken dispatched a primitive of kind op.
Dispatched(op) == nprims' = nprims + 1 /\ lastPrim'.op = op

\* C1. For every ThreadContext, in every reachable state, at most one of the
\* compute aggregator and the communication aggregator is active.
C1_AtMostOneActive ==
    \A t \in Threads : ~(tcxts[t].stComp.isActive /\ tcxts[t].stComm.isActive)

\* C2. For every thread, the EIDs of its emitted compute, communication and
\* synchronization records, in emission order, are exactly 1, 2, ..., N.
C2_EidsOneToN ==
    \A t \in Threads :
        \A i \in 1..Len(EidRecords(t)) : EidRecords(t)[i].eid = i

(***************************************************************************)
(* Load classification (C3, C4, C5)                                        *)
(***************************************************************************)
\* Byte a, as the shadow memory sh holds it, is one a load by thread t turns
\* into a communication edge: its last writer is defined, is not t, and t is
\* not yet among its readers.
EdgeByte(sh, a, t) ==
    /\ ShadowCell(sh, a).writer # SO_UNDEF
    /\ ShadowCell(sh, a).writer # t
    /\ t \notin ShadowCell(sh, a).readers
EdgeTriple(sh, a) == <<ShadowCell(sh, a).writer, ShadowCell(sh, a).eid, a>>
\* The read addresses of the compute records among recs.
RecordReadPoints(recs) ==
    UNION {Points(recs[i].readAddrs) : i \in {j \in 1..Len(recs) : recs[j].kind = "comp"}}

\* C3. For each byte a of a Load by thread t: the load adds the edge
\* (writer, writer_eid, a) to t's communication aggregator if and only if a's
\* last writer is defined, differs from t and t was not yet a reader of a;
\* every other byte is recorded as a local read range of the compute
\* aggregator (which this very load may flush), and no edge byte is.
C3_LoadClassification ==
    [][Dispatched("Load") =>
        LET t    == cachedTCxt
            B    == ByteRange(lastPrim'.a, lastPrim'.n)
            old  == tcxts[t]
            new  == tcxts'[t]
            added == CommTriples(new.stComm) \ CommTriples(old.stComm)
            local == Points(new.stComp.uniqueReadAddrs)
                       \cup RecordReadPoints(Appended(old.logger, new.logger))
        IN  /\ added = {EdgeTriple(shadow, a) : a \in {b \in B : EdgeByte(shadow, b, t)}}
            /\ \A a \in B : EdgeByte(shadow, a, t) <=> a \notin local
    ]_vars

\* A load of two bytes, one a communication byte and one a local byte, has
\* just been processed: both the aggregators hold a byte of it.
C3_Witness ==
    /\ lastPrim.op = "Load" /\ lastPrim.n = 2
    /\ \E t \in Threads :
        /\ t = lastPrim.tid
        /\ tcxts[t].stComm.isActive
        /\ Cardinality(CommTriples(tcxts[t].stComm)) = 1
        /\ Cardinality(Points(tcxts[t].stComp.uniqueReadAddrs)) = 1

\* The bytes B were all last written by one event of one thread other than t,
\* and t has read none of them since.
FromOneStore(sh, t, B) ==
    \E a0 \in B :
        /\ ShadowCell(sh, a0).writer \notin {SO_UNDEF, t}
        /\ \A a \in B : /\ ShadowCell(sh, a).writer = ShadowCell(sh, a0).writer
                        /\ ShadowCell(sh, a).eid = ShadowCell(sh, a0).eid
                        /\ t \notin ShadowCell(sh, a).readers
\* The edges of a communication aggregator whose producer is thread w.
EdgesOf(m, w) == {i \in 1..Len(m.comms) : m.comms[i][1] = w}
LastAddr(start, size) == AddrSub(AddrAdd(start, size), 1)

\* C4 as stated. Whenever T2 loads bytes [s, s+n-1] that T1 stored and T2 has
\* not read, T2's pending communication event holds exactly one edge whose
\* producer is T1, and that edge's ranges are exactly the one range
\* (s, s+n-1); the load is not counted as a compute read.
C4_Original ==
    [][(Dispatched("Load")
          /\ FromOneStore(shadow, cachedTCxt, ByteRange(lastPrim'.a, lastPrim'.n))) =>
        LET t   == cachedTCxt
            s   == lastPrim'.a
            w   == ShadowCell(shadow, s).writer
            new == tcxts'[t]
        IN  /\ Cardinality(EdgesOf(new.stComm, w)) = 1
            /\ \A i \in EdgesOf(new.stComm, w) :
                  new.stComm.comms[i][3] = <<<<s, LastAddr(s, lastPrim'.n)>>>>
            /\ new.stComp.reads = 0
    ]_vars

\* C4 as amended. (a) When T2 loads bytes [s, s+n-1] that one event e of T1
\* stored and T2 has not read, and T2's pending communication event holds no
\* edge of (T1, e) yet, the load appends the one edge (T1, e, {(s, s+n-1)}) to
\* the pending event, emits no communication record itself and is not counted
\* as a compute read.  (b) A pending communication event changes only by a
\* load of its thread adding to it, or by its flush, which emits it unchanged
\* as one communication record.
C4_SingleEdge ==
    [][/\ (Dispatched("Load")
            /\ FromOneStore(shadow, cachedTCxt, ByteRange(lastPrim'.a, lastPrim'.n))
            /\ \A i \in 1..Len(tcxts[cachedTCxt].stComm.comms) :
                  ~(/\ tcxts[cachedTCxt].stComm.comms[i][1] = ShadowCell(shadow, lastPrim'.a).writer
                    /\ tcxts[cachedTCxt].stComm.comms[i][2] = ShadowCell(shadow, lastPrim'.a).eid)) =>
            LET t   == cachedTCxt
                s   == lastPrim'.a
                c   == ShadowCell(shadow, s)
                old == tcxts[t]
                new == tcxts'[t]
                out == Appended(old.logger, new.logger)
            IN  /\ new.stComm.isActive
                /\ new.stComm.comms =
                      Append(old.stComm.comms,
                             <<c.writer, c.eid, <<<<s, LastAddr(s, lastPrim'.n)>>>>>>)
                /\ \A i \in 1..Len(out) :
                      out[i].kind = "comp" /\ out[i].reads = old.stComp.reads
                /\ new.stComp.reads = 0
       /\ \A t \in Threads :
            LET old == tcxts[t]
                new == tcxts'[t]
                out == SelectSeq(Appended(old.logger, new.logger), IsCommRecord)
            IN  /\ Len(out) <= 1
                /\ Len(out) = 1 =>
                      /\ old.stComm.isActive
                      /\ out[1].edges = old.stComm.comms
                      /\ new.stComm = STCommReset
                /\ (Len(out) = 0 /\ ~(Dispatched("Load") /\ t = cachedTCxt)) =>
                      new.stComm = old.stComm
    ]_vars

\* Thread 2 has loaded a two-byte sub-range of a three-byte store of thread 1
\* and the stream has ended: its trace is the one communication record.
C4_Witness ==
    /\ phase = "done"
    /\ 2 \in Threads
    /\ tcxts[2].stats.read = 1
    /\ \E s \in StartAddrs :
         Trace(2) = <<CommRecord([comms |-> <<<<1, 0, <<<<s + 1, s + 2>>>>>>>>,
                                  isActive |-> TRUE], 0, 2)>>

\* C5. A Store by thread s leaves s the writer of each byte stored and the
\* byte's reader set empty; a Load by thread r leaves r in the reader set of
\* each byte loaded and the byte's writer as it was; no step other than a
\* Store to the byte changes its writer or removes a reader; and a Load by a
\* thread already in a byte's reader set adds no communication edge for it.
C5_WriterReaderProtocol ==
    [][/\ Dispatched("Store") =>
            \A a \in ByteRange(lastPrim'.a, lastPrim'.n) :
                /\ ShadowCell(shadow', a).writer = tcxts[cachedTCxt].tid
                /\ ShadowCell(shadow', a).readers = {}
       /\ Dispatched("Load") =>
            \A a \in ByteRange(lastPrim'.a, lastPrim'.n) :
                /\ tcxts[cachedTCxt].tid \in ShadowCell(shadow', a).readers
                /\ tcxts[cachedTCxt].tid \in ShadowCell(shadow, a).readers =>
                      \A tr \in CommTriples(tcxts'[cachedTCxt].stComm)
                                  \ CommTriples(tcxts[cachedTCxt].stComm) : tr[3] # a
       /\ \A a \in AllAddrs :
            ~(Dispatched("Store") /\ a \in ByteRange(lastPrim'.a, lastPrim'.n)) =>
                /\ ShadowCell(shadow', a).writer = ShadowCell(shadow, a).writer
                /\ ShadowCell(shadow', a).eid = ShadowCell(shadow, a).eid
                /\ ShadowCell(shadow, a).readers \subseteq ShadowCell(shadow', a).readers
    ]_vars

\* Thread 2 has loaded twice a byte thread 1 stored: the first load became a
\* communication record, the second a local read.
C5_Witness ==
    /\ lastPrim.op = "Load" /\ lastPrim.tid = 2 /\ lastPrim.n = 1
    /\ 2 \in Threads
    /\ tcxts[2].stats.read = 2
    /\ ShadowCell(shadow, lastPrim.a).writer = 1
    /\ 2 \in ShadowCell(shadow, lastPrim.a).readers
    /\ Len(CommRecords(2)) = 1
    /\ CommRecords(2)[1].edges = <<<<1, 0, <<<<lastPrim.a, lastPrim.a>>>>>>>>
    /\ ~tcxts[2].stComm.isActive
    /\ tcxts[2].stComp.reads = 1

\* C9. In every state (each is reached right after a handler's compression-cap
\* check) the compute aggregator's reads and writes are at most
\* primsPerStCompEv, and so are the reads and writes of every compute record.
C9_CompressionCap ==
    \A t \in Threads :
        /\ tcxts[t].stComp.reads <= tcxts[t].primsPerStCompEv
        /\ tcxts[t].stComp.writes <= tcxts[t].primsPerStCompEv
        /\ \A i \in 1..Len(CompRecords(t)) :
              /\ CompRecords(t)[i].reads <= tcxts[t].primsPerStCompEv
              /\ CompRecords(t)[i].writes <= tcxts[t].primsPerStCompEv

\* A compute record was flushed by the cap with as many reads as the cap
\* allows, more than one.
C9_Witness ==
    /\ primsPerStCompEv > 1
    /\ \E t \in Threads : \E i \in 1..Len(CompRecords(t)) :
          /\ CompRecords(t)[i].reads = primsPerStCompEv
          /\ tcxts[t].stComp.isActive

(***************************************************************************)
(* AddrSet (C6, C7, C8)                                                    *)
(***************************************************************************)
\* C6. After any sequence of insert calls with valid ranges, from the empty
\* set, the addresses the stored ranges cover are exactly the addresses of
\* the inserted ranges.
C6_PointSetIsUnion ==
    /\ Points(msA) = ptsA
    /\ Points(msB) = ptsB

\* C7. After every insert each stored range (x, y) has x <= y, and
\* consecutive stored ranges (x, y), (x', y') have y + 1 < x': none overlap
\* and none are adjacent.
Coalesced(ms) ==
    /\ \A i \in 1..Len(ms) : ms[i][1] <= ms[i][2]
    /\ \A i \in 1..(Len(ms) - 1) : ms[i][2] + 1 < ms[i + 1][1]
C7_DisjointNonAdjacent ==
    /\ Coalesced(msA)
    /\ Coalesced(msB)

\* C8. Two insertion sequences that cover the same addresses leave identical
\* stored ranges, and inserting a range a second time, right after inserting
\* it, leaves the set unchanged.
C8_OrderIndependent ==
    /\ ptsA = ptsB => msA = msB
    /\ \A r \in ValidRanges :
          AddrSetInsert(AddrSetInsert(msA, r), r) = AddrSetInsert(msA, r)

(***************************************************************************)
(* Compression cap on a run of Stores (C10)                                *)
(***************************************************************************)
\* C10. A thread with compression cap c that has processed k Stores and
\* nothing else has emitted k div c compute records, each with c writes, and
\* holds k mod c writes in its aggregator; once the stream has ended its
\* trace is ceil(k/c) compute records, the first k div c with c writes each
\* and, if k mod c > 0, a last one with k mod c writes.
C10_StoresPerRecord ==
    \A t \in Threads :
        LET k    == tcxts[t].stats.write
            c    == tcxts[t].primsPerStCompEv
            recs == Trace(t)
        IN  /\ \A i \in 1..Len(recs) : recs[i].kind = "comp"
            /\ \A i \in 1..(k \div c) : i <= Len(recs) /\ recs[i].writes = c
            /\ phase \in {"run", "destroy"} =>
                  /\ Len(recs) = k \div c
                  /\ tcxts[t].stComp.writes = k % c
            /\ phase = "done" =>
                  /\ Len(recs) = (k + c - 1) \div c
                  /\ k % c # 0 => recs[Len(recs)].writes = k % c

\* Cap 3, four Stores, stream ended: two compute records, of 3 writes and of
\* 1 write.
C10_Witness ==
    /\ phase = "done"
    /\ primsPerStCompEv = 3
    /\ \E t \in Threads :
          /\ tcxts[t].stats.write = 4
          /\ Len(Trace(t)) = 2
          /\ Trace(t)[1].writes = 3
          /\ Trace(t)[2].writes = 1

(***************************************************************************)
(* End of the stream (C11)                                                 *)
(***************************************************************************)
\* The sum of field f over the compute records of recs.
RECURSIVE SumComp(_, _)
SumComp(recs, f) ==
    IF recs = <<>> THEN 0
    ELSE (IF Head(recs).kind = "comp" THEN Head(recs)[f] ELSE 0) + SumComp(Tail(recs), f)
\* The (writer, writer event, address) triples of the communication records
\* of recs.
RecordCommTriples(recs) ==
    UNION {CommTriples([comms |-> recs[i].edges]) :
              i \in {j \in 1..Len(recs) : recs[j].kind = "comm"}}
\* The triples thread context tc holds, pending or emitted.
KnownCommTriples(tc) == CommTriples(tc.stComm) \cup RecordCommTriples(tc.logger)

\* C11. Once the stream has ended and the thread contexts are destroyed, no
\* aggregator of any thread is active, the iops, flops and writes of a
\* thread's compute records add up to the IOP, FLOP and Store primitives the
\* thread processed, and its communication aggregator holds no edge; and no
\* step removes an edge from what a thread holds pending or has emitted, so
\* every edge added is in an emitted communication record at the end.
C11_NothingLostAtEnd ==
    [][/\ phase' = "done" =>
            \A t \in DOMAIN tcxts' :
                /\ ~tcxts'[t].stComp.isActive
                /\ ~tcxts'[t].stComm.isActive
                /\ tcxts'[t].stComm.comms = <<>>
                /\ SumComp(tcxts'[t].logger, "iops") = tcxts'[t].stats.iop
                /\ SumComp(tcxts'[t].logger, "flops") = tcxts'[t].stats.flop
                /\ SumComp(tcxts'[t].logger, "writes") = tcxts'[t].stats.write
                /\ allThreadsStats'[t] = tcxts'[t].stats
       /\ \A t \in Threads :
            KnownCommTriples(tcxts[t]) \subseteq KnownCommTriples(tcxts'[t])
    ]_vars

\* Swap->1; Store; Swap->2; Load of the stored byte; end: thread 2's pending
\* communication event was emitted by its destruction.
C11_Witness ==
    /\ phase = "done"
    /\ nprims = 4
    /\ Threads = {1, 2}
    /\ Len(Trace(2)) = 1
    /\ Trace(2)[1].kind = "comm"
    /\ Cardinality(RecordCommTriples(Trace(2))) = 1
    /\ tcxts[2].stats.read = 1

(***************************************************************************)
(* Dispatcher: swaps, thread list, barriers, spawns (C12 - C16)            *)
(***************************************************************************)
\* The records a flush of both aggregators of tc emits, in order.
FlushedRecords(tc) ==
    (IF tc.stComp.isActive THEN <<"comp">> ELSE <<>>)
        \o (IF tc.stComm.isActive THEN <<"comm">> ELSE <<>>)

\* C12. A Swap to a thread other than the current one leaves both aggregators
\* of the outgoing thread inactive, having emitted for it its active compute
\* event and then its active communication event and nothing else (no
\* synchronization record), with its EID advanced by the number of records
\* emitted; it makes the new thread current and changes no other existing
\* thread and no shadow memory.  A Swap to the current thread changes nothing.
C12_SwapFlushesOutgoing ==
    [][Dispatched("Swap") =>
        IF lastPrim'.a # currentTID
        THEN /\ currentTID' = lastPrim'.a
             /\ cachedTCxt' = lastPrim'.a
             /\ shadow' = shadow
             /\ threadSpawns' = threadSpawns
             /\ barrierParticipants' = barrierParticipants
             /\ \A t \in Threads :
                  IF t = cachedTCxt
                  THEN LET old == tcxts[t]
                           new == tcxts'[t]
                           out == Appended(old.logger, new.logger)
                       IN  /\ ~new.stComp.isActive
                           /\ ~new.stComm.isActive
                           /\ SubSeq(new.logger, 1, Len(old.logger)) = old.logger
                           /\ [i \in 1..Len(out) |-> out[i].kind] = FlushedRecords(old)
                           /\ new.events = old.events + Len(out)
                           /\ new.stats = old.stats
                  ELSE tcxts'[t] = tcxts[t]
        ELSE /\ UNCHANGED <<tcxts, currentTID, cachedTCxt, shadow, newThreadsInOrder,
                            threadSpawns, barrierParticipants, allThreadsStats>>
    ]_vars

\* Swap->1; Store; Swap->2: the swap away from thread 1 emitted its compute
\* event.
C12_Witness ==
    /\ lastPrim.op = "Swap"
    /\ lastPrim.tid = 1
    /\ currentTID = 2
    /\ nprims = 3
    /\ Len(Trace(1)) = 1
    /\ Trace(1)[1].kind = "comp"
    /\ Trace(1)[1].writes = 1
    /\ ~tcxts[1].stComp.isActive
    /\ tcxts[1].events = 1

\* The elements of a list.
Elems(list) == {list[i] : i \in 1..Len(list)}
NoRepeats(list) == \A i, j \in 1..Len(list) : list[i] = list[j] => i = j

\* C13. newThreadsInOrder never holds a TID twice, a ThreadContext exists for
\* exactly the TIDs in it, a Swap to a TID not in it appends that TID at its
\* end, and no other step changes it: it lists the Swap targets, each once,
\* in the order of the first Swap to each.
C13_ThreadsInOrder ==
    [][/\ NoRepeats(newThreadsInOrder')
       /\ DOMAIN tcxts' = Elems(newThreadsInOrder')
       /\ \A t \in DOMAIN tcxts' : tcxts'[t].tid = t
       /\ IF Dispatched("Swap")
          THEN /\ lastPrim'.a \in Elems(newThreadsInOrder')
               /\ lastPrim'.a \in Elems(newThreadsInOrder) =>
                     newThreadsInOrder' = newThreadsInOrder
               /\ lastPrim'.a \notin Elems(newThreadsInOrder) =>
                     newThreadsInOrder' = Append(newThreadsInOrder, lastPrim'.a)
          ELSE newThreadsInOrder' = newThreadsInOrder
    ]_vars

\* Swaps to 3, to 1 and back to 3: thread 3 is listed once, first.
C13_Witness ==
    /\ newThreadsInOrder = <<3, 1>>
    /\ lastPrim.op = "Swap"
    /\ lastPrim.a = 3
    /\ lastPrim.tid = 1
    /\ currentTID = 3
    /\ Threads = {1, 3}

\* The threads of tcs whose trace holds a synchronization record of
\* SynchroTrace kind ty on address a.
SyncRecordThreads(tcs, ty, a) ==
    {t \in DOMAIN tcs : \E i \in 1..Len(tcs[t].logger) :
        /\ tcs[t].logger[i].kind = "sync"
        /\ tcs[t].logger[i].type = ty
        /\ tcs[t].logger[i].addr = a}
BarrierAddrs(barriers) == {barriers[i][1] : i \in 1..Len(barriers)}

\* The step just taken ended the handler of a Sync primitive of kind op that
\* had gone through onCreate / onBarrier.
Flushed(op) == phase = "flush" /\ phase' # "flush" /\ lastPrim.op = op

\* C14. After any sequence of primitives: barrierParticipants holds each
\* barrier address at most once; a BarrierWait on an address not yet in it
\* appends the entry (address, {current thread}), a BarrierWait on an address
\* in it adds the current thread to that entry and changes no other entry,
\* and no other step changes the list; the handler of each BarrierWait then
\* appends to the current thread's trace a synchronization record of kind 5
\* on the barrier address, so that whenever no handler is under way the
\* participants of an entry are exactly the threads whose trace holds such a
\* record.
C14_BarrierParticipants ==
    [][/\ NoRepeats([i \in 1..Len(barrierParticipants') |-> barrierParticipants'[i][1]])
       /\ IF Dispatched("BARRIER")
          THEN LET a    == lastPrim'.a
                   old  == barrierParticipants
                   new  == barrierParticipants'
               IN  /\ a \notin BarrierAddrs(old) => new = Append(old, <<a, {currentTID}>>)
                   /\ a \in BarrierAddrs(old) =>
                         /\ Len(new) = Len(old)
                         /\ \A i \in 1..Len(old) :
                               /\ new[i][1] = old[i][1]
                               /\ new[i][2] = IF old[i][1] = a
                                              THEN old[i][2] \cup {currentTID}
                                              ELSE old[i][2]
                   /\ phase' = "flush"
          ELSE barrierParticipants' = barrierParticipants
       /\ Flushed("BARRIER") =>
             /\ currentTID \in DOMAIN tcxts'
             /\ LET recs == tcxts'[currentTID].logger
                IN  /\ Len(recs) > Len(tcxts[currentTID].logger)
                    /\ recs[Len(recs)].kind = "sync"
                    /\ recs[Len(recs)].type = 5
                    /\ recs[Len(recs)].addr = lastPrim.a
                    /\ recs[Len(recs)].tid = currentTID
       /\ phase' # "flush" =>
             \A i \in 1..Len(barrierParticipants') :
                 barrierParticipants'[i][2] =
                     SyncRecordThreads(tcxts', 5, barrierParticipants'[i][1])
    ]_vars

\* The addresses of the synchronization records of kind ty in recs, in order.
RECURSIVE SyncAddrs(_, _)
SyncAddrs(recs, ty) ==
    IF recs = <<>> THEN <<>>
    ELSE (IF Head(recs).kind = "sync" /\ Head(recs).type = ty
          THEN <<Head(recs).addr>> ELSE <<>>) \o SyncAddrs(Tail(recs), ty)
\* The child addresses of the spawns recorded for thread t, in order.
RECURSIVE SpawnsOf(_, _)
SpawnsOf(spawns, t) ==
    IF spawns = <<>> THEN <<>>
    ELSE (IF Head(spawns)[1] = t THEN <<Head(spawns)[2]>> ELSE <<>>)
            \o SpawnsOf(Tail(spawns), t)

\* C15. Each Create appends the one pair (current thread, child address) at
\* the end of threadSpawns, and its handler then appends to the current
\* thread's trace a synchronization record of kind 3 on the child address; no
\* other step changes threadSpawns; so whenever no handler is under way the
\* spawns recorded for a thread are, in order, the kind-3 records of its
\* trace, and no spawn names a thread without a context.
C15_ThreadSpawns ==
    [][/\ IF Dispatched("CREATE")
          THEN /\ threadSpawns' = Append(threadSpawns, <<currentTID, lastPrim'.a>>)
               /\ phase' = "flush"
          ELSE threadSpawns' = threadSpawns
       /\ Flushed("CREATE") =>
             /\ currentTID \in DOMAIN tcxts'
             /\ LET recs == tcxts'[currentTID].logger
                IN  /\ Len(recs) > Len(tcxts[currentTID].logger)
                    /\ recs[Len(recs)].kind = "sync"
                    /\ recs[Len(recs)].type = 3
                    /\ recs[Len(recs)].addr = lastPrim.a
                    /\ recs[Len(recs)].tid = currentTID
       /\ phase' # "flush" =>
             \A t \in DOMAIN tcxts' :
                 SpawnsOf(threadSpawns', t) = SyncAddrs(tcxts'[t].logger, 3)
       /\ phase' # "flush" =>
             \A i \in 1..Len(threadSpawns') : threadSpawns'[i][1] \in DOMAIN tcxts'
    ]_vars

\* C16. A Sync primitive whose code is none of the codes convertAndFlush
\* lists (and is not Swap) ends the run with a fatal error: the step that
\* dispatches it leaves the run terminated, not running.
C16_BadSyncCodeIsFatal ==
    [][(Dispatched("OTHER") /\ "OTHER" \notin KnownSyncTypes) => phase' = "fatal"]_vars

(***************************************************************************)
(* Edge cases of Store and Load (C17, C18)                                 *)
(***************************************************************************)
\* The write ranges thread context tc holds, in its compute aggregator or in
\* the compute records it has emitted.
WriteRanges(tc) ==
    Elems(tc.stComp.uniqueWriteAddrs)
        \cup UNION {Elems(tc.logger[i].writeAddrs) :
                       i \in {j \in 1..Len(tc.logger) : tc.logger[j].kind = "comp"}}

\* C17. A Store of size 0 changes no shadow cell and records no write range:
\* the write ranges the thread holds, pending or emitted, are the same before
\* and after it.
C17_ZeroStoreIgnored ==
    [][(Dispatched("Store") /\ lastPrim'.n = 0) =>
          /\ shadow' = shadow
          /\ WriteRanges(tcxts'[cachedTCxt]) = WriteRanges(tcxts[cachedTCxt])
    ]_vars

\* C18. When a Load has both bytes that classify as communication and bytes
\* that classify as local, its local bytes (those not already among the
\* compute aggregator's read ranges) are dropped: after the load they are
\* neither in the read ranges of the compute aggregator, from where a later
\* compute record would take them, nor in those of a compute record the load
\* flushed.
C18_MixedLoadDropsLocal ==
    [][Dispatched("Load") =>
        LET t     == cachedTCxt
            B     == ByteRange(lastPrim'.a, lastPrim'.n)
            E     == {b \in B : EdgeByte(shadow, b, t)}
            old   == tcxts[t]
            new   == tcxts'[t]
        IN  (E # {} /\ B \ E # {}) =>
               \A a \in (B \ E) \ Points(old.stComp.uniqueReadAddrs) :
                  /\ a \notin Points(new.stComp.uniqueReadAddrs)
                  /\ a \notin RecordReadPoints(Appended(old.logger, new.logger))
    ]_vars

(***************************************************************************)
(* CapnLogger (C19, C20)                                                   *)
(***************************************************************************)
\* The events of the roots written, in order.
RECURSIVE Flatten(_)
Flatten(roots) == IF roots = <<>> THEN <<>> ELSE Head(roots) \o Flatten(Tail(roots))
\* The events the CapnLogger has written or holds pending, in order.
CapnSeen == Flatten(capn.out) \o capn.orphans

\* C19. For every compute event handed to the CapnLogger, the read ranges of
\* the Event built for it are the event's unique read ranges and the write
\* ranges its unique write ranges.
C19_CapnReadRanges ==
    /\ Len(CapnSeen) = Len(capnIn)
    /\ \A i \in 1..Len(capnIn) :
          capnIn[i].kind = "comp" =>
              /\ CapnSeen[i].kind = "comp"
              /\ CapnSeen[i].readAddrs = capnIn[i].readAddrs
              /\ CapnSeen[i].writeAddrs = capnIn[i].writeAddrs


\* C20. With batch size N (eventsPerMessage), for any sequence of compute,
\* communication, sync and marker events handed to the CapnLogger: the events
\* written, followed by those pending, are the encodings of the events
\* received, each once and in the order received; every root written holds
\* between 1 and N events, and exactly N unless it is the one written at
\* close; fewer than N events are ever pending after a call returns; and
\* once the logger is closed nothing is pending.
C20_BatchedExactlyOnce ==
    /\ CapnSeen = [i \in 1 .. Len(capnIn) |-> CapnEvent(capnIn[i])]
    /\ capn.events = Len(capn.orphans) \/ capn.closed
    /\ Len(capn.orphans) < capnN
    /\ \A k \in 1 .. Len(capn.out) :
          /\ Len(capn.out[k]) \in 1 .. capnN
          /\ (k < Len(capn.out) \/ ~capn.closed) => Len(capn.out[k]) = capnN
    /\ capn.closed => capn.orphans = <<>>
\* A logger with N = 2 closed after three events of three kinds: a root of
\* two events and a root of the one left over.
C20_Witness ==
    /\ capn.closed
    /\ capnN = 2
    /\ Len(capnIn) = 3
    /\ capnIn[1].kind = "comp" /\ capnIn[2].kind = "sync" /\ capnIn[3].kind = "marker"
    /\ Len(capn.out) = 2
    /\ Len(capn.out[1]) = 2
    /\ capn.out[2] = <<CapnMarkerEvent(capnIn[3])>>


(***************************************************************************)
(* Instruction markers (C22)                                               *)
(***************************************************************************)
IsMarkerRecord(r) == r.kind = "marker"
Markers(t) == SelectSeq(Trace(t), IsMarkerRecord)

\* C22. An Instr primitive raises the thread's instruction count by one and
\* emits one marker exactly when the new count is a positive multiple of
\* 2^12, nothing otherwise; it changes neither the thread's EID nor its
\* compute or communication aggregator; no other step emits a marker.  So a
\* thread's trace holds one marker per 4096 Instr primitives.
C22_MarkerEvery4096 ==
    [][/\ Dispatched("Instr") =>
            LET t == cachedTCxt
                n == tcxts'[t].stats.instr
            IN  /\ n = tcxts[t].stats.instr + 1
                /\ Appended(Trace(t), tcxts'[t].logger) =
                      IF n > 0 /\ n % 4096 = 0
                      THEN <<MarkerRecord(4096)>> ELSE <<>>
                /\ tcxts'[t].events = tcxts[t].events
                /\ tcxts'[t].stComp = tcxts[t].stComp
                /\ tcxts'[t].stComm = tcxts[t].stComm
       /\ ~Dispatched("Instr") =>
            \A t \in DOMAIN tcxts :
                SelectSeq(tcxts'[t].logger, IsMarkerRecord) = Markers(t)
       /\ \A t \in DOMAIN tcxts' :
            Len(SelectSeq(tcxts'[t].logger, IsMarkerRecord))
                = tcxts'[t].stats.instr \div 4096]_vars
\* A thread with an active compute aggregator that processed 8192 Instr
\* primitives and holds two markers.
C22_Witness ==
    \E t \in Threads :
        /\ tcxts[t].stats.instr = 8192
        /\ Len(Markers(t)) = 2
        /\ tcxts[t].stComp.isActive
        /\ tcxts[t].events = 0


(***************************************************************************)
(* flushIfActive (C23)                                                     *)
(***************************************************************************)
\* C23. For the thread context of every thread in every reachable state:
\* compFlushIfActive (commFlushIfActive) on an active aggregator appends
\* exactly one record, holding the aggregator's content under the thread's
\* event id, raises the event id by exactly one and leaves the aggregator
\* reset (compute: iops, flops, reads, writes zero, both range sets empty,
\* inactive; communication: no edges, inactive) and the other aggregator as
\* it was; on an inactive aggregator it changes nothing.
C23_FlushIfActive ==
    \A t \in Threads :
        LET tc == tcxts[t]
            c  == compFlushIfActive(tc)
            m  == commFlushIfActive(tc)
        IN  /\ IF tc.stComp.isActive
               THEN /\ Len(c.logger) = Len(tc.logger) + 1
                    /\ SubSeq(c.logger, 1, Len(tc.logger)) = tc.logger
                    /\ c.logger[Len(c.logger)] =
                          [kind |-> "comp", eid |-> tc.events, tid |-> t,
                           iops |-> tc.stComp.iops, flops |-> tc.stComp.flops,
                           reads |-> tc.stComp.reads, writes |-> tc.stComp.writes,
                           writeAddrs |-> tc.stComp.uniqueWriteAddrs,
                           readAddrs |-> tc.stComp.uniqueReadAddrs]
                    /\ c.events = tc.events + 1
                    /\ c.stComp = [iops |-> 0, flops |-> 0, reads |-> 0, writes |-> 0,
                                   uniqueWriteAddrs |-> <<>>, uniqueReadAddrs |-> <<>>,
                                   isActive |-> FALSE]
                    /\ c.stComm = tc.stComm
                    /\ c.stats = tc.stats
               ELSE c = tc
            /\ IF tc.stComm.isActive
               THEN /\ Len(m.logger) = Len(tc.logger) + 1
                    /\ SubSeq(m.logger, 1, Len(tc.logger)) = tc.logger
                    /\ m.logger[Len(m.logger)] =
                          [kind |-> "comm", eid |-> tc.events, tid |-> t,
                           edges |-> tc.stComm.comms]
                    /\ m.events = tc.events + 1
                    /\ m.stComm = [comms |-> <<>>, isActive |-> FALSE]
                    /\ m.stComp = tc.stComp
                    /\ m.stats = tc.stats
               ELSE m = tc
\* One thread holds both aggregators active, the compute one with a write
\* range, and has flushed before; another thread holds both inactive after
\* a flush.
C23_Witness ==
    \E t, u \in Threads :
        /\ tcxts[t].stComp.isActive /\ tcxts[t].stComp.uniqueWriteAddrs # <<>>
        /\ tcxts[t].stComm.isActive
        /\ ~tcxts[u].stComp.isActive /\ ~tcxts[u].stComm.isActive
        /\ Len(Trace(u)) > 0 /\ tcxts[u].events > 0


(***************************************************************************)
(* Sync primitives at the ThreadContext (C24)                              *)
(***************************************************************************)
\* The records a thread context emits when both aggregators are flushed if
\* active, the compute aggregator first.
FlushBoth(tc) == Appended(tc.logger, commFlushIfActive(compFlushIfActive(tc)).logger)

\* C24. A Sync primitive forwarded to the current thread's context flushes
\* both aggregators if active and then emits the sync record: the trace grows
\* by the flushed records followed by the sync record, both aggregators are
\* inactive after it, and the thread's event id grows by one per flushed
\* record and by one more for the sync record.
C24_SyncFlushesThenEmits ==
    [][Dispatched("LOCK") =>
          LET t   == cachedTCxt
              old == tcxts[t]
              new == tcxts'[t]
              fl  == FlushBoth(old)
              app == Appended(old.logger, new.logger)
          IN  /\ Len(app) = Len(fl) + 1
              /\ SubSeq(app, 1, Len(fl)) = fl
              /\ app[Len(app)].kind = "sync"
              /\ app[Len(app)].type = 1
              /\ app[Len(app)].addr = lastPrim'.a
              /\ ~new.stComp.isActive /\ ~new.stComm.isActive
              /\ new.events = old.events + Len(fl) + 1]_vars


(***************************************************************************)
(* IOP and FLOP (C25)                                                      *)
(***************************************************************************)
\* The thread context processed IOPs and nothing else.
OnlyIops(tc) ==
    tc.stats.iop > 0 /\ tc.stats = [Stats0 EXCEPT !.iop = tc.stats.iop]

\* C25. An IOP (FLOP) primitive emits the communication record if the
\* communication aggregator is active and nothing else, leaves the
\* communication aggregator inactive, and adds one to the compute
\* aggregator's iops (flops), activating it and changing nothing else of it:
\* it never emits a compute record.  A thread that processed n IOPs and no
\* other primitive has, at the end of the stream, a trace of one compute
\* record with iops = n.
C25_IopFlop ==
    [][/\ (Dispatched("IOP") \/ Dispatched("FLOP")) =>
            LET t   == cachedTCxt
                old == tcxts[t]
                new == tcxts'[t]
                app == Appended(old.logger, new.logger)
            IN  /\ app = IF old.stComm.isActive
                         THEN <<[kind |-> "comm", eid |-> old.events, tid |-> t,
                                 edges |-> old.stComm.comms]>>
                         ELSE <<>>
                /\ new.events = old.events + Len(app)
                /\ ~new.stComm.isActive
                /\ new.stComp =
                      IF lastPrim'.op = "IOP"
                      THEN [old.stComp EXCEPT !.iops = @ + 1, !.isActive = TRUE]
                      ELSE [old.stComp EXCEPT !.flops = @ + 1, !.isActive = TRUE]
       /\ phase' = "done" =>
            \A t \in DOMAIN tcxts' :
                OnlyIops(tcxts'[t]) =>
                    tcxts'[t].logger =
                        <<[kind |-> "comp", eid |-> 0, tid |-> t,
                           iops |-> tcxts'[t].stats.iop, flops |-> 0,
                           reads |-> 0, writes |-> 0,
                           writeAddrs |-> <<>>, readAddrs |-> <<>>]>>]_vars
\* The stream Swap, 100 IOPs has ended: one compute record with iops = 100.
C25_Witness ==
    \E t \in Threads :
        /\ phase = "done"
        /\ tcxts[t].stats.iop = 100
        /\ Len(Trace(t)) = 1
        /\ Trace(t)[1].kind = "comp" /\ Trace(t)[1].iops = 100


(***************************************************************************)
(* STCommEvent::addEdge (C26)                                              *)
(***************************************************************************)
\* The (writer thread, writer event) pairs of the edges, in edge order.
EdgePairs(m) == [i \in 1..Len(m.comms) |-> <<m.comms[i][1], m.comms[i][2]>>]
\* The pairs of the calls, each at its first occurrence, in call order.
RECURSIVE FirstPairs(_)
FirstPairs(calls) ==
    IF calls = <<>> THEN <<>>
    ELSE LET n    == Len(calls)
             rest == FirstPairs(SubSeq(calls, 1, n - 1))
             p    == <<calls[n][1], calls[n][2]>>
         IN  IF \E i \in 1..Len(rest) : rest[i] = p THEN rest ELSE Append(rest, p)

\* C26. Within one communication event: after addEdge(writer, event, addr)
\* the aggregator is active; if an edge of the pair (writer, event) existed,
\* the edges are the same in number and order and only that edge changed, by
\* the insertion of (addr, addr) into its range set; otherwise one edge with
\* the singleton range set was appended at the end.  So the event holds at
\* most one edge per pair, in first-insertion order of the pairs.
C26_AddEdge ==
    [][Len(edgeIn') = Len(edgeIn) + 1 =>
          LET call == edgeIn'[Len(edgeIn')]
              old  == stCommE.comms
              new  == stCommE'.comms
              hits == {i \in 1..Len(old) : old[i][1] = call[1] /\ old[i][2] = call[2]}
          IN  /\ stCommE'.isActive
              /\ IF hits # {}
                 THEN /\ Cardinality(hits) = 1
                      /\ Len(new) = Len(old)
                      /\ \A i \in 1..Len(old) :
                            new[i] = IF i \in hits
                                     THEN <<old[i][1], old[i][2],
                                            AddrSetInsert(old[i][3], <<call[3], call[3]>>)>>
                                     ELSE old[i]
                 ELSE new = Append(old, <<call[1], call[2], <<<<call[3], call[3]>>>>>>)
              /\ EdgePairs(stCommE') = FirstPairs(edgeIn')]_vars
\* Three calls, the third for the pair of the first: two edges, the first
\* holding both addresses.
C26_Witness ==
    /\ Len(edgeIn) = 3
    /\ <<edgeIn[1][1], edgeIn[1][2]>> = <<edgeIn[3][1], edgeIn[3][2]>>
    /\ <<edgeIn[1][1], edgeIn[1][2]>> # <<edgeIn[2][1], edgeIn[2][2]>>
    /\ edgeIn[1][1] = edgeIn[2][1]
    /\ edgeIn[1][3] = 0 /\ edgeIn[3][3] = 3
    /\ Len(stCommE.comms) = 2
    /\ stCommE.comms[1][3] = <<<<0, 0>>, <<3, 3>>>>


(***************************************************************************)
(* Producer event ids of communication edges (C27)                         *)
(***************************************************************************)
\* The edges thread t has emitted in communication records or holds in its
\* communication aggregator.
EdgesOfThread(t) ==
    UNION {{CommRecords(t)[i].edges[j] : j \in 1..Len(CommRecords(t)[i].edges)}
           : i \in 1..Len(CommRecords(t))}
    \cup {tcxts[t].stComm.comms[j] : j \in 1..Len(tcxts[t].stComm.comms)}
\* Thread w's compute record holding a store to byte a is, or will be with
\* the thread's present event id, emitted under event id e.
StoreEmittedUnder(w, e, a) ==
    \/ \E i \in 1..Len(CompRecords(w)) :
          CompRecords(w)[i].eid = e /\ a \in Points(CompRecords(w)[i].writeAddrs)
    \/ /\ tcxts[w].stComp.isActive
       /\ a \in Points(tcxts[w].stComp.uniqueWriteAddrs)
       /\ tcxts[w].events = e

\* C27. For every communication edge (producer thread, producer event id,
\* addresses) emitted or pending in any thread and every byte of it, the
\* producer thread's compute record holding a store to that byte is emitted
\* under the producer event id, or is still pending and will be emitted under
\* it.
C27_ProducerEid ==
    \A t \in Threads :
        \A edge \in EdgesOfThread(t) :
            \A a \in Points(edge[3]) :
                edge[1] \in Threads /\ StoreEmittedUnder(edge[1], edge[2], a)


(***************************************************************************)
(* Order of the records of one thread (C28)                                *)
(***************************************************************************)
\* C28. A communicating Load flushes the compute aggregator, so while a
\* thread's communication aggregator is active its edges stem from Loads
\* processed before every Store the compute aggregator holds or receives.
\* Records follow the order of their primitives: whenever a step emits a
\* compute record holding a store for a thread whose communication
\* aggregator was active before the step, the communication record is
\* emitted first, in the same step (be the flush caused by the compression
\* cap, a Swap, a Sync or destruction).
C28_RecordsInPrimitiveOrder ==
    [][\A t \in DOMAIN tcxts :
          LET app == Appended(tcxts[t].logger, tcxts'[t].logger)
          IN  \A i \in 1..Len(app) :
                  (/\ tcxts[t].stComm.isActive
                   /\ app[i].kind = "comp"
                   /\ app[i].writes > 0)
                  => \E j \in 1..(i - 1) : app[j].kind = "comm"]_vars


(***************************************************************************)
(* The cached thread context (C29)                                         *)
(***************************************************************************)
\* C29. Whenever a Load, Store, IOP, FLOP, Instr or forwarded Sync is
\* dispatched, the cached handle is not null and refers to the ThreadContext
\* of currentTID, the target of the most recent Swap; for every stream,
\* also one that does not begin with a Swap.
C29_CachedIsCurrent ==
    [][(nprims' = nprims + 1 /\ lastPrim'.op # "Swap") =>
          /\ cachedTCxt # NullTCxt
          /\ cachedTCxt \in DOMAIN tcxts
          /\ tcxts[cachedTCxt].tid = currentTID
          /\ currentTID \in Tids]_vars


(***************************************************************************)
(* AddrSet::insert at the ends of the address space (C30)                  *)
(***************************************************************************)
\* Every stored range has first <= last.
WellFormed(ms) == \A i \in 1..Len(ms) : ms[i][1] <= ms[i][2]
\* No stored range covers an address that was never inserted, as a merge of
\* two ranges that neither overlap nor touch would.
NoSpuriousMerge(ms, pts) == \A i \in 1..Len(ms) : RangePoints(ms[i]) \subseteq pts

\* C30. With address arithmetic modulo 2^w, after any sequence of inserts of
\* valid ranges, ranges that end at the maximum address or start at address
\* 0 included, no stored range has first > last and no stored range joins
\* two inserted ranges that are neither adjacent nor overlapping.
C30_InsertAtTheEnds ==
    /\ WellFormed(msA) /\ NoSpuriousMerge(msA, ptsA)
    /\ WellFormed(msB) /\ NoSpuriousMerge(msB, ptsB)


(***************************************************************************)
(* The global mutex and the metadata tables (C21)                          *)
(***************************************************************************)
\* Thread p is inside the scope of its lock_guard.
InGuardedScope(pc) == pc \in {"critical", "unlock"}

\* C21. (a) A thread inside the scope of its lock_guard holds gMtx, so at
\* most one thread is inside.  (b) Every read or write of the thread-order
\* list, the spawn list, the barrier-participant list and the final stats
\* map is made by the thread that holds gMtx.  (c) gMtx is acquired only by
\* a thread handling a Swap, a Create, a BarrierWait, or shutdown
\* (~EventHandlers, onExit).  (d) Handling a Load, Store, IOP, FLOP, Instr
\* or another sync kind neither changes gMtx nor touches the tables.
C21_MutexDiscipline ==
    [][/\ \A p \in Procs : InGuardedScope(wpc'[p]) => gMtx' = p
       /\ \A p \in Procs :
             (wpc[p] = "critical" /\ wpc'[p] # "critical") => (gMtx = p /\ gMtx' = p)
       /\ MtxTables' # MtxTables =>
             \E p \in Procs : wpc[p] = "critical" /\ wpc'[p] = "unlock" /\ gMtx = p
       /\ (gMtx' # gMtx /\ gMtx' # 0) =>
             /\ gMtx = 0
             /\ wop[gMtx'].op \in {"Swap", "CREATE", "BARRIER", "End", "Exit"}
       /\ \A w \in Workers :
             (wop'[w] # wop[w] /\ wop'[w].op \in {"Load", "Store", "IOP", "FLOP", "Instr", "LOCK"})
                => (gMtx' = gMtx /\ MtxTables' = MtxTables /\ ~InGuardedScope(wpc'[w]))
       /\ \A w \in Workers :
             (wpc[w] \in {"isReaderTID", "updateReader", "classify"} /\ wpc'[w] # wpc[w])
                => (gMtx' = gMtx /\ MtxTables' = MtxTables /\ ~InGuardedScope(wpc'[w]))
       /\ \A w \in Workers :
             wop'[w].op \in {"Load", "Store", "IOP", "FLOP", "Instr", "LOCK", "SwapSame"}
                => (wpc'[w] \notin {"lock", "critical", "unlock"} /\ gMtx' # w)]_vars
\* One instance is inside onCreate's guarded scope with the spawn recorded
\* while the other, handling a Swap, waits for the mutex.
C21_Witness ==
    \E p, q \in Workers :
        /\ p # q
        /\ gMtx = p /\ wpc[p] = "unlock" /\ wop[p].op = "CREATE"
        /\ Len(threadSpawns) = 1
        /\ wpc[q] = "lock" /\ wop[q].op = "Swap"
        /\ Len(newThreadsInOrder) = 2


\* The events buffered in ev_buf, oldest first.
Buffered == [i \in 1 .. used |-> ev_buf[i - 1]]
\* The kind of a buffered event: the member of the union that was written.
KindOfEvent(e) == CASE e.u.member = "mem_ev" -> "mem"
                    [] e.u.member = "comp_ev" -> "comp"
                    [] e.u.member = "sync_ev" -> "sync"
                    [] e.u.member = "cxt_ev" -> "cxt"
\* The observers registered for a kind, in registration order.
RegisteredFor(k) == CASE k = "mem" -> observers.mem_observers
                      [] k = "comp" -> observers.comp_observers
                      [] k = "sync" -> observers.sync_observers
                      [] k = "cxt" -> observers.cxt_observers
\* One call of every observer registered for the kind of event e, carrying e.
DeliveryOf(e) ==
    [i \in 1 .. Len(RegisteredFor(KindOfEvent(e))) |->
        [obs |-> RegisteredFor(KindOfEvent(e))[i], kind |-> KindOfEvent(e),
         member |-> e.u.member, ev |-> e.u.val]]
\* The deliveries of a sequence of events, one event after the other.
RECURSIVE DeliveriesOf(_)
DeliveriesOf(evs) ==
    IF evs = <<>> THEN <<>> ELSE DeliveryOf(Head(evs)) \o DeliveriesOf(Tail(evs))
\* One call of every cleanup observer, in registration order.
CleanupRuns ==
    [i \in 1 .. Len(cleanup_observers) |->
        [obs |-> cleanup_observers[i], kind |-> "cleanup", member |-> "none", ev |-> 0]]

\* C31: flushEvents calls, for each buffered event in the order it was
\* buffered, every observer registered for that event's kind exactly once and
\* no observer of another kind, and leaves the buffer empty; finish makes the
\* same deliveries first and then calls each cleanup observer exactly once in
\* registration order.
C31_FifoDelivery ==
    [][/\ (emCall'.n = emCall.n + 1 /\ emCall'.op = "flushEvents")
            => /\ notified' = notified \o DeliveriesOf(Buffered)
               /\ used' = 0
       /\ (emCall'.n = emCall.n + 1 /\ emCall'.op = "finish")
            => /\ notified' = notified \o DeliveriesOf(Buffered) \o CleanupRuns
               /\ used' = 0]_vars

\* finish has delivered two buffered events, which differ, to the same
\* observer and has then run two cleanup observers.
C31_Witness ==
    /\ emCall.op = "finish"
    /\ Len(notified) = 4
    /\ notified[1].kind # "cleanup" /\ notified[2].kind # "cleanup"
    /\ notified[1].obs = notified[2].obs
    /\ notified[1].ev # notified[2].ev
    /\ notified[3].kind = "cleanup" /\ notified[4].kind = "cleanup"
    /\ notified[3].obs # notified[4].obs
    /\ Len(cleanup_observers) = 2

====
